---- MODULE Spec2Model ----
(***************************************************************************)
(* The rainfall-prediction API (src/api/weather_api.py): the /mongo        *)
(* endpoints over the document store with its sequence counters and schema *)
(* validators, and the relational endpoints over the PostgreSQL store.     *)
(* Every store call of a handler is one atomic step; requests interleave   *)
(* between store calls.                                                    *)
(***************************************************************************)
EXTENDS Integers, Sequences, FiniteSets, TLC

(***************************************************************************)
(* Bounds of the model.                                                    *)
(***************************************************************************)
\* Concurrent request slots (worker threads serving requests).
NProcs == 2
\* Allocations explored per sequence counter, counted from the initial state.
MaxSeq == 2
\* Readings of the server clock explored.
MaxClock == 3
\* Allocations explored over all counters, where every endpoint is served.
MaxAllocs == 4

Procs == 1..NProcs

(***************************************************************************)
(* BSON integers.  A Python int that fits 32 bits is stored as BSON "int", *)
(* a larger one as BSON "long".  A number is kept as [hi, lo] with value   *)
(* hi * 2^31 + lo, so that the first value past the 32-bit range can be    *)
(* written down.                                                           *)
(***************************************************************************)
Int32Max == 2147483647

N(n) == [hi |-> 0, lo |-> n]

\* $inc by one; an int32 that overflows is promoted to a long.
Inc(x) == IF x.lo = Int32Max THEN [hi |-> x.hi + 1, lo |-> 0]
          ELSE [hi |-> x.hi, lo |-> x.lo + 1]

NumLeq(x, y) == x.hi < y.hi \/ (x.hi = y.hi /\ x.lo <= y.lo)

\* bsonType 'int': the 32-bit integers.
IsBsonInt(x) == x.hi = 0

\* Python truthiness of an int: `if obs.location_id:`.
Truthy(x) == x # N(0)

\* JSON null / Python None in a string-typed field.
NULL == "null"

(***************************************************************************)
(* Values requests carry.                                                  *)
(***************************************************************************)
Names == {"Sydney"}
States == {"NSW"}
\* Calendar dates, as day numbers; one day is "2023-01-01".
Dates == {1}
\* datetime.combine(d, datetime.min.time()): the date at midnight.
Midnight(d) == [day |-> d, secs |-> 0]

CollectionNames == {"weather_observations", "locations", "rain_predictions"}
CounterNames == {"locations", "observations", "predictions"}

VARIABLES
    counters,             \* db_mongo.counters: counter name -> sequence_value
    locations,            \* db_mongo.locations: set of documents
    weather_observations, \* db_mongo.weather_observations
    rain_predictions,     \* db_mongo.rain_predictions
    validators,           \* collections whose $jsonSchema validator is applied
    migration,            \* the run of migrate_to_mongodb.py: its position, the rows
                          \* it fetched, its document-store client and its outcome
    startup,              \* what startup_event met: the collMod call that raised,
                          \* and the validators an earlier startup had attached
    nextOid,              \* per collection: the next ObjectId the driver generates
    clock,                \* server time, datetime.now()
    req,                  \* per request slot: the handler, its position and locals
    issued,               \* history: values get_next_sequence_value returned, per counter
    pg,                   \* relational tables and their serial sequences
    conns                 \* relational connections: per slot, the connection's state

vars == <<counters, locations, weather_observations, rain_predictions,
          validators, startup, migration, nextOid, clock, req, issued, pg, conns>>

mongoVars == <<counters, locations, weather_observations, rain_predictions,
               validators, startup, migration, nextOid, clock, issued>>
pgVars == <<pg, conns>>

(***************************************************************************)
(* Document store operations (pymongo).                                    *)
(***************************************************************************)
\* Variant: the filter's value is ignored.
Matching_unfiltered(coll, field, v) == {d \in coll : field \in DOMAIN d}

\* The documents of a collection a filter {field: v} matches.
Matching(coll, field, v) == {d \in coll : field \in DOMAIN d /\ d[field] = v}

\* The first document in natural (insertion) order.
First(docs) == CHOOSE d \in docs : \A e \in docs : d._id <= e._id

\* find_one(filter): the matching document or None, as a set of at most one.
find_one(coll, field, v) ==
    LET m == Matching(coll, field, v) IN IF m = {} THEN {} ELSE {First(m)}

\* insert_one(data): the driver adds the generated _id.
insert_one(coll, data, oid) == coll \cup {data @@ [_id |-> oid]}

\* Variant: replace_one, the document becomes data (with its _id).
update_one_replace(coll, field, v, data) ==
    LET m == Matching(coll, field, v) IN
    IF m = {} THEN coll
    ELSE (coll \ {First(m)}) \cup {data @@ [_id |-> First(m)._id]}

\* update_one(filter, {"$set": data}): the first match, with data's fields set.
update_one(coll, field, v, data) ==
    LET m == Matching(coll, field, v) IN
    IF m = {} THEN coll
    ELSE (coll \ {First(m)}) \cup {data @@ First(m)}

\* Variant: removes the first document of the collection, whatever the filter.
delete_one_first(coll, field, v) == IF coll = {} THEN coll ELSE coll \ {First(coll)}

\* delete_one(filter): removes the first match only.
delete_one(coll, field, v) ==
    LET m == Matching(coll, field, v) IN
    IF m = {} THEN coll ELSE coll \ {First(m)}

\* Variant: {"$set": {"sequence_value": 1}} in place of "$inc".
find_one_and_update_set(c, name) ==
    [n \in DOMAIN c \cup {name} |-> IF n = name THEN N(1) ELSE c[n]]

\* counters.find_one_and_update({"_id": name}, {"$inc": {"sequence_value": 1}}, upsert=True)
find_one_and_update_inc(c, name) ==
    IF name \in DOMAIN c THEN [c EXCEPT ![name] = Inc(@)]
    ELSE c @@ (name :> N(1))

\* Variant: return_document=False, the value before the update (0 stands for
\* the missing document).
get_next_sequence_value_before(c, name) == IF name \in DOMAIN c THEN c[name] ELSE N(0)

\* The value returned to the handler: return_document=True, the document after the update.
get_next_sequence_value(c, name) == find_one_and_update_inc(c, name)[name]

(***************************************************************************)
(* Schema contracts of setup_mongodb_validation.                           *)
(***************************************************************************)
Has(d, f) == f \in DOMAIN d

\* Variant: 'required': ['location_id'], the name is optional.
LocationContract_name_optional(d) ==
    /\ Has(d, "location_id")
    /\ IsBsonInt(d.location_id)
    /\ Has(d, "name") => d.name # NULL

LocationContract(d) ==
    /\ Has(d, "location_id") /\ Has(d, "name")
    /\ IsBsonInt(d.location_id)
    /\ d.name # NULL
    \* 'state': string or null; both are strings here, an absent field passes.

ObservationContract(d) ==
    /\ Has(d, "observation_id") /\ Has(d, "location_id") /\ Has(d, "date")
    /\ IsBsonInt(d.observation_id)
    /\ IsBsonInt(d.location_id)
    /\ DOMAIN d.date = {"day", "secs"}

PredictionContract(d) ==
    /\ Has(d, "prediction_id") /\ Has(d, "location_id") /\ Has(d, "observation_id")
    /\ Has(d, "will_it_rain") /\ Has(d, "predicted_at")
    /\ IsBsonInt(d.prediction_id)
    /\ IsBsonInt(d.location_id)
    /\ IsBsonInt(d.observation_id)
    /\ d.will_it_rain \in BOOLEAN

SatisfiesContract(c, d) ==
    CASE c = "locations" -> LocationContract(d)
      [] c = "weather_observations" -> ObservationContract(d)
      [] c = "rain_predictions" -> PredictionContract(d)

\* Variant: the contract is enforced whether or not its validator is attached.
StoreAccepts_enforced(c, d) == SatisfiesContract(c, d)

\* validationLevel='strict': a write is rejected when the collection has a
\* validator and the resulting document violates it.
StoreAccepts(c, d) == c \notin validators \/ SatisfiesContract(c, d)

\* The collMod calls run in this order inside one try block.
SetupOrder == <<"weather_observations", "locations", "rain_predictions">>

\* Variant: each collMod call has its own try block, so a call that raises
\* does not keep the later ones from being applied.
SetupFrom_each_tried(i, existing, failAt) ==
    {SetupOrder[j] : j \in {k \in i..Len(SetupOrder) :
                               SetupOrder[k] \in existing /\ k # failAt}}

\* setup_mongodb_validation: collMod per collection, in order; the first call
\* that raises (the collection does not exist yet, or the store fails at call
\* number failAt) ends the run with a warning.  SetupFrom is the set of
\* collections whose validator was applied, SetupFailureFrom the number of
\* the call that raised (0 when none did).
RECURSIVE SetupFrom(_, _, _)
SetupFrom(i, existing, failAt) ==
    IF i > Len(SetupOrder) THEN {}
    ELSE IF SetupOrder[i] \notin existing \/ i = failAt THEN {}
    ELSE {SetupOrder[i]} \cup SetupFrom(i + 1, existing, failAt)

RECURSIVE SetupFailureFrom(_, _, _)
SetupFailureFrom(i, existing, failAt) ==
    IF i > Len(SetupOrder) THEN 0
    ELSE IF SetupOrder[i] \notin existing \/ i = failAt THEN i
    ELSE SetupFailureFrom(i + 1, existing, failAt)

\* A validator is part of its collection and outlives the server: collMod
\* replaces it, and a collMod that fails or is not reached leaves the one an
\* earlier startup attached.
setup_mongodb_validation(existing, attached, failAt) ==
    (attached \cap existing) \cup SetupFrom(1, existing, failAt)

\* startup_event: the run of setup_mongodb_validation is over, with or
\* without its warning, before the first request is served.
startup_event(existing, attached, failAt) ==
    [failure |-> SetupFailureFrom(1, existing, failAt),
     attached |-> attached \cap existing]

\* The server was started on a database without collections: the first
\* collMod raised, and nothing was attached before.
FreshStartup == startup_event({}, {}, 0)


(***************************************************************************)
(* Requests.  A slot holds the handler being run, its position, the path   *)
(* parameter, the request body and the handler's locals.  A request is     *)
(* admitted at its first store call (its arrival touches no shared state). *)
(* When the handler returns or raises its locals are gone: the slot keeps  *)
(* the handler's name and the response, which is handed back before any    *)
(* other store call is scheduled (Return touches no shared state either).  *)
(***************************************************************************)
NoBody == [none |-> TRUE]

Idle == [op |-> "idle", pc |-> "idle", id |-> N(0), body |-> NoBody,
         status |-> 0, err |-> "", alloc |-> {}, inserted |-> {},
         detail |-> <<>>, data |-> {}, verified |-> {}, doc |-> {}, now |-> 0]

NewReq(op, pc, id, body) == [Idle EXCEPT !.op = op, !.pc = pc, !.id = id, !.body = body]

\* Ids a client sends in a path: zero (never issued) and every id the counter
\* has issued; in a body also a negative one.
Range(s) == {s[i] : i \in DOMAIN s}
IdArgs(name) == {N(0)} \cup Range(issued[name])
BodyIdArgs(name) == {N(0 - 1)} \cup IdArgs(name)

\* The handler returns or raises: the response is final.
Finished(r, status, err, detail) ==
    [Idle EXCEPT !.op = r.op, !.pc = "done", !.status = status, !.err = err,
                 !.detail = detail]

\* return {"message": ..., "data": ...}: data is the set of records returned,
\* empty for "data": None.
Respond(r, data) == [Finished(r, 200, "", <<>>) EXCEPT !.data = data]

\* raise HTTPException(status_code=404, detail=f"{what} with ID {id} not found"),
\* passed on by `except HTTPException: raise`.
NotFound(r, what, id) == Finished(r, 404, "HTTPException", <<what, id>>)

\* `except Exception as e: raise HTTPException(status_code=500, ...)`: every
\* exception other than an HTTPException, whatever its class.
Failed(r, exc) == Finished(r, 500, exc, <<>>)

\* {k: doc.get(k) for k in doc if k != '_id'}
StripId(d) == [f \in DOMAIN d \ {"_id"} |-> d[f]]

\* Variant: extra="allow", the keyword arguments that are no fields are kept.
ModelDict_allow_extra(fields, kwargs) ==
    [f \in fields \cup DOMAIN kwargs |-> IF f \in DOMAIN kwargs THEN kwargs[f] ELSE NULL]

\* Model(**kwargs).dict() of a pydantic model: the declared fields, None for an
\* optional field that was not given; keyword arguments that are no fields of
\* the model are ignored.
ModelDict(fields, kwargs) ==
    [f \in fields |-> IF f \in DOMAIN kwargs THEN kwargs[f] ELSE NULL]

\* Model(**kwargs) raises a ValidationError when a required field is missing.
Validates(required, kwargs) == required \subseteq DOMAIN kwargs

\* Variant: a response model without the state field.
MongoLocation_without_state(kwargs) ==
    ModelDict({"location_id", "name"}, kwargs) @@ [state |-> NULL]

\* The response models (src/api/models.py).
MongoLocation(kwargs) == ModelDict({"location_id", "name", "state"}, kwargs)

MongoLocationRequired == {"location_id", "name"}

\* A datetime given for `date: Union[date, datetime]` is kept as a datetime or
\* cut to its date, depending on how the installed pydantic resolves the Union.
DateOf(v) == [day |-> v.day]
MongoObservation(kwargs) ==
    LET d == ModelDict({"observation_id", "location_id", "date"}, kwargs) IN
    {d, [d EXCEPT !.date = DateOf(@)]}

MongoObservationRequired == {"observation_id", "location_id", "date"}

MongoPrediction(kwargs) ==
    ModelDict({"prediction_id", "location_id", "observation_id", "will_it_rain",
               "predicted_at"}, kwargs)

MongoPredictionRequired == {"prediction_id", "location_id", "observation_id", "will_it_rain"}

\* No response is waiting to be handed back.
NoneDone == \A q \in Procs : req[q].pc # "done"

\* Requests for a new id are admitted while the counter is within the bound.
Allocations(name) == Len(issued[name])
AllocAllowed(name, pending) ==
    Allocations(name) + Cardinality({q \in Procs : req[q].pc \in pending}) < MaxSeq

\* The allocator call of a handler: the counter document is incremented and
\* the returned value recorded.
Allocate(name) ==
    /\ counters' = find_one_and_update_inc(counters, name)
    /\ issued' = [issued EXCEPT ![name] = Append(@, get_next_sequence_value(counters, name))]

\* Variant: the lookup has no filter, any Location passes.
verify_location_exists_any(locs, location_id) == locs # {}

\* Variant: the lookup is skipped.
verify_location_exists_skipped(locs, location_id) == TRUE

\* verify_location_exists: True when a Location has the id, else it raises 404.
verify_location_exists(locs, location_id) == find_one(locs, "location_id", location_id) # {}

\* MongoObservation(**{k: doc.get(k) for k in doc if k != '_id'}).dict() as the
\* response's data; a ValidationError is caught by `except Exception`.
ObservationResponse(p, r, doc) ==
    IF \A d \in doc : Validates(MongoObservationRequired, StripId(d))
    THEN \E out \in MongoObservation(StripId(CHOOSE d \in doc : TRUE)) :
            req' = [req EXCEPT ![p] = Respond(r, {out})]
    ELSE req' = [req EXCEPT ![p] = Failed(r, "ValidationError")]

\* [MongoObservation(**{...}) for d in docs]: every document of one response
\* is converted by the same pydantic.  The list is kept as the set of its
\* elements.
MongoObservationList(docs) ==
    LET kept == {ModelDict({"observation_id", "location_id", "date"}, StripId(d)) : d \in docs}
    IN  {kept, {[m EXCEPT !.date = DateOf(@)] : m \in kept}}

\* MongoLocation(location_id=d["location_id"], name=d["name"], state=d.get("state"))
\* for one document or for each of a list; d["name"] on a document without
\* the key raises KeyError.
LocationResponse(p, r, docs) ==
    req' = [req EXCEPT ![p] =
              IF \A d \in docs : Validates(MongoLocationRequired, d)
              THEN Respond(r, {MongoLocation(StripId(d)) : d \in docs})
              ELSE Failed(r, "KeyError")]

\* MongoPrediction(**{k: doc.get(k) for k in doc if k != '_id'}).dict()
PredictionResponse(p, r, doc) ==
    req' = [req EXCEPT ![p] =
              IF \A d \in doc : Validates(MongoPredictionRequired, StripId(d))
              THEN Respond(r, {MongoPrediction(StripId(d)) : d \in doc})
              ELSE Failed(r, "ValidationError")]

\* insert_one into collection c, whose documents are docs.
Inserted(c, docs, data) == insert_one(docs, data, nextOid[c])
BumpOid(c) == nextOid' = [nextOid EXCEPT ![c] = @ + 1]

(***************************************************************************)
(* /mongo/locations                                                        *)
(***************************************************************************)
\* POST /mongo/locations/
create_mongo_location(p) ==
    \/ /\ req[p].pc = "idle" /\ NoneDone
       /\ AllocAllowed("locations", {})
       /\ \E name \in Names, state \in States :
            LET r == NewReq("create_mongo_location", "cml_insert", N(0),
                            [name |-> name, state |-> state]) IN
            \/ /\ Allocate("locations")
               /\ req' = [req EXCEPT ![p] =
                            [r EXCEPT !.alloc = {get_next_sequence_value(counters, "locations")}]]
            \/ /\ req' = [req EXCEPT ![p] = Failed(r, "PyMongoError")]
               /\ UNCHANGED <<counters, issued>>
       /\ UNCHANGED <<locations, weather_observations, rain_predictions,
                      validators, startup, migration, nextOid, clock, pgVars>>
    \/ /\ req[p].pc = "cml_insert" /\ NoneDone
       /\ LET r == req[p]
              data == r.body @@ [location_id |-> CHOOSE x \in r.alloc : TRUE] IN
          \/ /\ StoreAccepts("locations", data)
             /\ locations' = Inserted("locations", locations, data)
             /\ BumpOid("locations")
             \* insert_one has added `_id` to data; created_loc = MongoLocation(**data)
             /\ req' = [req EXCEPT ![p] =
                          Respond(r, {MongoLocation(data @@ [_id |-> nextOid["locations"]])})]
          \/ /\ ~StoreAccepts("locations", data)
             /\ req' = [req EXCEPT ![p] = Failed(r, "WriteError")]
             /\ UNCHANGED <<locations, nextOid>>
          \/ /\ req' = [req EXCEPT ![p] = Failed(r, "PyMongoError")]
             /\ UNCHANGED <<locations, nextOid>>
       /\ UNCHANGED <<counters, issued, weather_observations, rain_predictions,
                      validators, startup, migration, clock, pgVars>>

\* PUT /mongo/locations/{location_id}
update_mongo_location(p) ==
    \/ /\ req[p].pc = "idle" /\ NoneDone
       /\ \E id \in IdArgs("locations"), name \in Names, state \in States :
            LET data == [name |-> name, state |-> state]
                r == NewReq("update_mongo_location", "uml_find", id, data)
                m == Matching(locations, "location_id", id) IN
            \/ /\ m = {}
               \* res.matched_count == 0
               /\ req' = [req EXCEPT ![p] = NotFound(r, "Location", r.id)]
               /\ UNCHANGED locations
            \/ /\ m # {}
               /\ StoreAccepts("locations", data @@ First(m))
               /\ locations' = update_one(locations, "location_id", id, data)
               /\ req' = [req EXCEPT ![p] = r]
            \/ /\ m # {}
               /\ ~StoreAccepts("locations", data @@ First(m))
               /\ req' = [req EXCEPT ![p] = Failed(r, "WriteError")]
               /\ UNCHANGED locations
            \/ /\ req' = [req EXCEPT ![p] = Failed(r, "PyMongoError")]
               /\ UNCHANGED locations
       /\ UNCHANGED <<counters, issued, weather_observations, rain_predictions,
                      validators, startup, migration, nextOid, clock, pgVars>>
    \/ /\ req[p].pc = "uml_find" /\ NoneDone
       /\ LET r == req[p]
              doc == find_one(locations, "location_id", r.id) IN
          \/ /\ doc # {}
             \* MongoLocation(location_id=doc["location_id"], name=doc["name"], state=doc.get("state"))
             /\ req' = [req EXCEPT ![p] =
                          IF \A d \in doc : Validates(MongoLocationRequired, d)
                          THEN Respond(r, {MongoLocation(StripId(d)) : d \in doc})
                          ELSE Failed(r, "KeyError")]
          \/ /\ doc = {}
             \* doc["location_id"] on None
             /\ req' = [req EXCEPT ![p] = Failed(r, "TypeError")]
          \/ req' = [req EXCEPT ![p] = Failed(r, "PyMongoError")]
       /\ UNCHANGED <<mongoVars, pgVars>>

\* DELETE /mongo/locations/{location_id}
delete_mongo_location(p) ==
    \/ /\ req[p].pc = "idle" /\ NoneDone
       /\ \E id \in IdArgs("locations") :
            LET r == NewReq("delete_mongo_location", "dml_delete", id, NoBody)
                doc == find_one(locations, "location_id", id) IN
            \/ /\ doc = {}
               /\ req' = [req EXCEPT ![p] = NotFound(r, "Location", r.id)]
            \/ /\ doc # {}
               /\ req' = [req EXCEPT ![p] = r]
            \/ req' = [req EXCEPT ![p] = Failed(r, "PyMongoError")]
       /\ UNCHANGED <<mongoVars, pgVars>>
    \/ /\ req[p].pc = "dml_delete" /\ NoneDone
       /\ LET r == req[p]
              m == Matching(locations, "location_id", r.id) IN
          \/ /\ m = {}
             \* res.deleted_count == 0
             /\ req' = [req EXCEPT ![p] = NotFound(r, "Location", r.id)]
             /\ UNCHANGED locations
          \/ /\ m # {}
             /\ locations' = delete_one(locations, "location_id", r.id)
             /\ req' = [req EXCEPT ![p] = Respond(r, {})]
          \/ /\ req' = [req EXCEPT ![p] = Failed(r, "PyMongoError")]
             /\ UNCHANGED locations
       /\ UNCHANGED <<counters, issued, weather_observations, rain_predictions,
                      validators, startup, migration, nextOid, clock, pgVars>>

(***************************************************************************)
(* /mongo/observations                                                     *)
(***************************************************************************)
\* The document create and update write: obs.dict() with the date promoted
\* to a datetime at midnight.
ObservationData(body) == [location_id |-> body.location_id, date |-> Midnight(body.date)]

\* POST /mongo/observations/
create_mongo_observation(p) ==
    \/ /\ req[p].pc = "idle" /\ NoneDone
       /\ AllocAllowed("observations", {"cmo_alloc"})
       /\ \E location_id \in BodyIdArgs("locations"), date \in Dates :
            LET r == NewReq("create_mongo_observation", "cmo_alloc", N(0),
                            [location_id |-> location_id, date |-> date]) IN
            \/ /\ verify_location_exists(locations, location_id)
               /\ req' = [req EXCEPT ![p] = [r EXCEPT !.verified = {location_id}]]
            \/ /\ ~verify_location_exists(locations, location_id)
               /\ req' = [req EXCEPT ![p] = NotFound(r, "Location", location_id)]
            \/ req' = [req EXCEPT ![p] = Failed(r, "PyMongoError")]
       /\ UNCHANGED <<mongoVars, pgVars>>
    \/ /\ req[p].pc = "cmo_alloc" /\ NoneDone
       /\ LET r == req[p] IN
          \/ /\ Allocate("observations")
             /\ req' = [req EXCEPT ![p] =
                          [r EXCEPT !.pc = "cmo_insert",
                                    !.alloc = {get_next_sequence_value(counters, "observations")}]]
          \/ /\ req' = [req EXCEPT ![p] = Failed(r, "PyMongoError")]
             /\ UNCHANGED <<counters, issued>>
       /\ UNCHANGED <<locations, weather_observations, rain_predictions,
                      validators, startup, migration, nextOid, clock, pgVars>>
    \/ /\ req[p].pc = "cmo_insert" /\ NoneDone
       /\ LET r == req[p]
              data == ObservationData(r.body)
                        @@ [observation_id |-> CHOOSE x \in r.alloc : TRUE] IN
          \/ /\ StoreAccepts("weather_observations", data)
             /\ weather_observations' = Inserted("weather_observations", weather_observations, data)
             /\ BumpOid("weather_observations")
             /\ req' = [req EXCEPT ![p] =
                          [r EXCEPT !.pc = "cmo_find",
                                    !.inserted = {nextOid["weather_observations"]}]]
          \/ /\ ~StoreAccepts("weather_observations", data)
             /\ req' = [req EXCEPT ![p] = Failed(r, "WriteError")]
             /\ UNCHANGED <<weather_observations, nextOid>>
          \/ /\ req' = [req EXCEPT ![p] = Failed(r, "PyMongoError")]
             /\ UNCHANGED <<weather_observations, nextOid>>
       /\ UNCHANGED <<counters, issued, locations, rain_predictions,
                      validators, startup, migration, clock, pgVars>>
    \/ /\ req[p].pc = "cmo_find" /\ NoneDone
       /\ LET r == req[p]
              saved_data == find_one(weather_observations, "_id",
                                     CHOOSE x \in r.inserted : TRUE) IN
          \/ /\ saved_data # {}
             /\ ObservationResponse(p, r, saved_data)
          \/ /\ saved_data = {}
             \* `for k in saved_data` on None
             /\ req' = [req EXCEPT ![p] = Failed(r, "TypeError")]
          \/ req' = [req EXCEPT ![p] = Failed(r, "PyMongoError")]
       /\ UNCHANGED <<mongoVars, pgVars>>

\* update_one of update_mongo_observation and what follows it.
UpdateObservation(p, r) ==
    LET data == ObservationData(r.body)
        m == Matching(weather_observations, "observation_id", r.id) IN
    \/ /\ m = {}
       \* res.matched_count == 0
       /\ req' = [req EXCEPT ![p] = NotFound(r, "Observation", r.id)]
       /\ UNCHANGED weather_observations
    \/ /\ m # {}
       /\ StoreAccepts("weather_observations", data @@ First(m))
       /\ weather_observations' =
              update_one(weather_observations, "observation_id", r.id, data)
       /\ req' = [req EXCEPT ![p] = [r EXCEPT !.pc = "umo_find"]]
    \/ /\ m # {}
       /\ ~StoreAccepts("weather_observations", data @@ First(m))
       /\ req' = [req EXCEPT ![p] = Failed(r, "WriteError")]
       /\ UNCHANGED weather_observations
    \/ /\ req' = [req EXCEPT ![p] = Failed(r, "PyMongoError")]
       /\ UNCHANGED weather_observations

\* PUT /mongo/observations/{observation_id}
update_mongo_observation(p) ==
    \/ /\ req[p].pc = "idle" /\ NoneDone
       /\ \E id \in IdArgs("observations"),
             location_id \in BodyIdArgs("locations"), date \in Dates :
            LET r == NewReq("update_mongo_observation", "umo_update", id,
                            [location_id |-> location_id, date |-> date]) IN
            \* if obs.location_id: verify_location_exists(obs.location_id)
            \/ /\ Truthy(location_id)
               /\ \/ /\ verify_location_exists(locations, location_id)
                     /\ req' = [req EXCEPT ![p] = [r EXCEPT !.verified = {location_id}]]
                  \/ /\ ~verify_location_exists(locations, location_id)
                     /\ req' = [req EXCEPT ![p] = NotFound(r, "Location", location_id)]
                  \/ req' = [req EXCEPT ![p] = Failed(r, "PyMongoError")]
               /\ UNCHANGED weather_observations
            \/ /\ ~Truthy(location_id)
               /\ UpdateObservation(p, r)
       /\ UNCHANGED <<counters, issued, locations, rain_predictions,
                      validators, startup, migration, nextOid, clock, pgVars>>
    \/ /\ req[p].pc = "umo_update" /\ NoneDone
       /\ UpdateObservation(p, req[p])
       /\ UNCHANGED <<counters, issued, locations, rain_predictions,
                      validators, startup, migration, nextOid, clock, pgVars>>
    \/ /\ req[p].pc = "umo_find" /\ NoneDone
       /\ LET r == req[p]
              doc == find_one(weather_observations, "observation_id", r.id) IN
          \/ /\ doc # {}
             /\ ObservationResponse(p, r, doc)
          \/ /\ doc = {}
             \* `for k in doc` on None
             /\ req' = [req EXCEPT ![p] = Failed(r, "TypeError")]
          \/ req' = [req EXCEPT ![p] = Failed(r, "PyMongoError")]
       /\ UNCHANGED <<mongoVars, pgVars>>

\* DELETE /mongo/observations/{observation_id}
delete_mongo_observation(p) ==
    \/ /\ req[p].pc = "idle" /\ NoneDone
       /\ \E id \in IdArgs("observations") :
            LET r == NewReq("delete_mongo_observation", "dmo_delete", id, NoBody)
                doc == find_one(weather_observations, "observation_id", id) IN
            \/ /\ doc = {}
               /\ req' = [req EXCEPT ![p] = NotFound(r, "Observation", r.id)]
            \/ /\ doc # {}
               /\ req' = [req EXCEPT ![p] = r]
            \/ req' = [req EXCEPT ![p] = Failed(r, "PyMongoError")]
       /\ UNCHANGED <<mongoVars, pgVars>>
    \/ /\ req[p].pc = "dmo_delete" /\ NoneDone
       /\ LET r == req[p]
              m == Matching(weather_observations, "observation_id", r.id) IN
          \/ /\ m = {}
             \* res.deleted_count == 0
             /\ req' = [req EXCEPT ![p] = NotFound(r, "Observation", r.id)]
             /\ UNCHANGED weather_observations
          \/ /\ m # {}
             /\ weather_observations' =
                    delete_one(weather_observations, "observation_id", r.id)
             /\ req' = [req EXCEPT ![p] = Respond(r, {})]
          \/ /\ req' = [req EXCEPT ![p] = Failed(r, "PyMongoError")]
             /\ UNCHANGED weather_observations
       /\ UNCHANGED <<counters, issued, locations, rain_predictions,
                      validators, startup, migration, nextOid, clock, pgVars>>

(***************************************************************************)
(* /mongo/predictions                                                      *)
(***************************************************************************)
\* datetime.now(): the server's clock is read and moves on.
Tick == clock' = clock + 1

\* Requests that will read the clock are admitted while it is within the bound.
ClockPcs == {"cmp_find_obs", "cmp_verify", "cmp_now",
             "ump_find_obs", "ump_verify", "ump_now"}
ClockAllowed ==
    clock + Cardinality({q \in Procs : req[q].pc \in ClockPcs}) <= MaxClock

\* What a client sends for predicted_at, and as a location_id of its own.
ClientTimes == {0}
ClientLocations == {N(0)}

\* pred: MongoPredictionBase, parsed from the request body: fields that are
\* not declared (a location_id, a prediction_id) are ignored.
MongoPredictionBase(json) ==
    ModelDict({"observation_id", "will_it_rain", "predicted_at"}, json)

\* pred: PredictionBase of update_mongo_prediction.
PredictionBase(json) == ModelDict({"observation_id", "will_it_rain"}, json)

\* Variant: the location_id assignment is left out.
PredictionData_without_location(pred, location_id, prediction_id, now) ==
    [prediction_id |-> prediction_id, predicted_at |-> now] @@ pred

\* data = pred.dict(); data["location_id"] = location_id;
\* data["prediction_id"] = prediction_id; data["predicted_at"] = datetime.now()
PredictionData(pred, location_id, prediction_id, now) ==
    [location_id |-> location_id, prediction_id |-> prediction_id,
     predicted_at |-> now] @@ pred

\* data = pred.dict(); data["predicted_at"] = datetime.now()
PredictionUpdate(pred, now) == [predicted_at |-> now] @@ pred

\* POST /mongo/predictions/
create_mongo_prediction(p) ==
    \/ /\ req[p].pc = "idle" /\ NoneDone
       /\ AllocAllowed("predictions", {}) /\ ClockAllowed
       /\ \E observation_id \in IdArgs("observations"), will_it_rain \in BOOLEAN,
             predicted_at \in ClientTimes, location_id \in ClientLocations :
            LET r == NewReq("create_mongo_prediction", "cmp_find_obs", N(0),
                            [observation_id |-> observation_id,
                             will_it_rain |-> will_it_rain,
                             predicted_at |-> predicted_at,
                             location_id |-> location_id]) IN
            \* prediction_id = get_next_sequence_value("predictions") comes first
            \/ /\ Allocate("predictions")
               /\ req' = [req EXCEPT ![p] =
                            [r EXCEPT !.alloc = {get_next_sequence_value(counters, "predictions")}]]
            \/ /\ req' = [req EXCEPT ![p] = Failed(r, "PyMongoError")]
               /\ UNCHANGED <<counters, issued>>
       /\ UNCHANGED <<locations, weather_observations, rain_predictions,
                      validators, startup, migration, nextOid, clock, pgVars>>
    \/ /\ req[p].pc = "cmp_find_obs" /\ NoneDone
       /\ LET r == req[p]
              observation == find_one(weather_observations, "observation_id",
                                      r.body.observation_id) IN
          \/ /\ observation = {}
             /\ req' = [req EXCEPT ![p] = NotFound(r, "Observation", r.body.observation_id)]
          \/ /\ observation # {}
             /\ req' = [req EXCEPT ![p] = [r EXCEPT !.pc = "cmp_verify", !.doc = observation]]
          \/ req' = [req EXCEPT ![p] = Failed(r, "PyMongoError")]
       /\ UNCHANGED <<mongoVars, pgVars>>
    \/ /\ req[p].pc = "cmp_verify" /\ NoneDone
       /\ LET r == req[p]
              location_id == (CHOOSE d \in r.doc : TRUE).location_id IN
          \/ /\ verify_location_exists(locations, location_id)
             /\ req' = [req EXCEPT ![p] =
                          [r EXCEPT !.pc = "cmp_now", !.verified = {location_id}]]
          \/ /\ ~verify_location_exists(locations, location_id)
             /\ req' = [req EXCEPT ![p] = NotFound(r, "Location", location_id)]
          \/ req' = [req EXCEPT ![p] = Failed(r, "PyMongoError")]
       /\ UNCHANGED <<mongoVars, pgVars>>
    \/ /\ req[p].pc = "cmp_now" /\ NoneDone
       \* data["predicted_at"] = datetime.now(), before the insert is sent
       /\ Tick
       /\ req' = [req EXCEPT ![p] = [req[p] EXCEPT !.pc = "cmp_insert", !.now = clock]]
       /\ UNCHANGED <<counters, issued, locations, weather_observations,
                      rain_predictions, validators, startup, migration, nextOid, pgVars>>
    \/ /\ req[p].pc = "cmp_insert" /\ NoneDone
       /\ LET r == req[p]
              data == PredictionData(MongoPredictionBase(r.body),
                                     (CHOOSE d \in r.doc : TRUE).location_id,
                                     CHOOSE x \in r.alloc : TRUE, r.now) IN
          /\ UNCHANGED clock
          /\ \/ /\ StoreAccepts("rain_predictions", data)
                /\ rain_predictions' = Inserted("rain_predictions", rain_predictions, data)
                /\ BumpOid("rain_predictions")
                /\ req' = [req EXCEPT ![p] =
                             [r EXCEPT !.pc = "cmp_find",
                                       !.inserted = {nextOid["rain_predictions"]}]]
             \/ /\ ~StoreAccepts("rain_predictions", data)
                /\ req' = [req EXCEPT ![p] = Failed(r, "WriteError")]
                /\ UNCHANGED <<rain_predictions, nextOid>>
             \/ /\ req' = [req EXCEPT ![p] = Failed(r, "PyMongoError")]
                /\ UNCHANGED <<rain_predictions, nextOid>>
       /\ UNCHANGED <<counters, issued, locations, weather_observations,
                      validators, startup, migration, pgVars>>
    \/ /\ req[p].pc = "cmp_find" /\ NoneDone
       /\ LET r == req[p]
              saved_data == find_one(rain_predictions, "_id",
                                     CHOOSE x \in r.inserted : TRUE) IN
          \/ /\ saved_data # {}
             /\ PredictionResponse(p, r, saved_data)
          \/ /\ saved_data = {}
             \* `for k in saved_data` on None
             /\ req' = [req EXCEPT ![p] = Failed(r, "TypeError")]
          \/ req' = [req EXCEPT ![p] = Failed(r, "PyMongoError")]
       /\ UNCHANGED <<mongoVars, pgVars>>

\* PUT /mongo/predictions/{prediction_id}
update_mongo_prediction(p) ==
    \/ /\ req[p].pc = "idle" /\ NoneDone /\ ClockAllowed
       /\ \E id \in IdArgs("predictions"),
             observation_id \in IdArgs("observations"), will_it_rain \in BOOLEAN :
            LET body == [observation_id |-> observation_id, will_it_rain |-> will_it_rain]
                existing == find_one(rain_predictions, "prediction_id", id)
                \* if pred.observation_id != existing["observation_id"]
                changed == observation_id # (CHOOSE d \in existing : TRUE).observation_id
                r == NewReq("update_mongo_prediction", "ump_now", id, body) IN
            \/ /\ existing = {}
               /\ req' = [req EXCEPT ![p] = NotFound(r, "Prediction", r.id)]
            \/ /\ existing # {}
               /\ req' = [req EXCEPT ![p] =
                            [r EXCEPT !.pc = IF changed THEN "ump_find_obs" ELSE "ump_now"]]
            \/ req' = [req EXCEPT ![p] = Failed(r, "PyMongoError")]
       /\ UNCHANGED <<mongoVars, pgVars>>
    \/ /\ req[p].pc = "ump_find_obs" /\ NoneDone
       /\ LET r == req[p]
              observation == find_one(weather_observations, "observation_id",
                                      r.body.observation_id) IN
          \/ /\ observation = {}
             /\ req' = [req EXCEPT ![p] = NotFound(r, "Observation", r.body.observation_id)]
          \/ /\ observation # {}
             /\ req' = [req EXCEPT ![p] = [r EXCEPT !.pc = "ump_verify", !.doc = observation]]
          \/ req' = [req EXCEPT ![p] = Failed(r, "PyMongoError")]
       /\ UNCHANGED <<mongoVars, pgVars>>
    \/ /\ req[p].pc = "ump_verify" /\ NoneDone
       /\ LET r == req[p]
              location_id == (CHOOSE d \in r.doc : TRUE).location_id IN
          \/ /\ verify_location_exists(locations, location_id)
             \* data["location_id"] = ... runs before `data = pred.dict()`:
             \* data is an unbound local of the handler.
             /\ req' = [req EXCEPT ![p] = Failed(r, "UnboundLocalError")]
          \/ /\ ~verify_location_exists(locations, location_id)
             /\ req' = [req EXCEPT ![p] = NotFound(r, "Location", location_id)]
          \/ req' = [req EXCEPT ![p] = Failed(r, "PyMongoError")]
       /\ UNCHANGED <<mongoVars, pgVars>>
    \/ /\ req[p].pc = "ump_now" /\ NoneDone
       \* data["predicted_at"] = datetime.now(), before the update is sent
       /\ Tick
       /\ req' = [req EXCEPT ![p] = [req[p] EXCEPT !.pc = "ump_update", !.now = clock]]
       /\ UNCHANGED <<counters, issued, locations, weather_observations,
                      rain_predictions, validators, startup, migration, nextOid, pgVars>>
    \/ /\ req[p].pc = "ump_update" /\ NoneDone
       /\ LET r == req[p]
              data == PredictionUpdate(PredictionBase(r.body), r.now)
              m == Matching(rain_predictions, "prediction_id", r.id) IN
          /\ UNCHANGED clock
          /\ \/ /\ m = {}
                \* res.matched_count == 0
                /\ req' = [req EXCEPT ![p] = NotFound(r, "Prediction", r.id)]
                /\ UNCHANGED rain_predictions
             \/ /\ m # {}
                /\ StoreAccepts("rain_predictions", data @@ First(m))
                /\ rain_predictions' =
                       update_one(rain_predictions, "prediction_id", r.id, data)
                /\ req' = [req EXCEPT ![p] = [r EXCEPT !.pc = "ump_find"]]
             \/ /\ m # {}
                /\ ~StoreAccepts("rain_predictions", data @@ First(m))
                /\ req' = [req EXCEPT ![p] = Failed(r, "WriteError")]
                /\ UNCHANGED rain_predictions
             \/ /\ req' = [req EXCEPT ![p] = Failed(r, "PyMongoError")]
                /\ UNCHANGED rain_predictions
       /\ UNCHANGED <<counters, issued, locations, weather_observations,
                      validators, startup, migration, nextOid, pgVars>>
    \/ /\ req[p].pc = "ump_find" /\ NoneDone
       /\ LET r == req[p]
              doc == find_one(rain_predictions, "prediction_id", r.id) IN
          \/ /\ doc # {}
             /\ PredictionResponse(p, r, doc)
          \/ /\ doc = {}
             \* `for k in doc` on None
             /\ req' = [req EXCEPT ![p] = Failed(r, "TypeError")]
          \/ req' = [req EXCEPT ![p] = Failed(r, "PyMongoError")]
       /\ UNCHANGED <<mongoVars, pgVars>>

\* DELETE /mongo/predictions/{prediction_id}
delete_mongo_prediction(p) ==
    \/ /\ req[p].pc = "idle" /\ NoneDone
       /\ \E id \in IdArgs("predictions") :
            LET r == NewReq("delete_mongo_prediction", "dmp_delete", id, NoBody)
                doc == find_one(rain_predictions, "prediction_id", id) IN
            \/ /\ doc = {}
               /\ req' = [req EXCEPT ![p] = NotFound(r, "Prediction", r.id)]
            \/ /\ doc # {}
               /\ req' = [req EXCEPT ![p] = r]
            \/ req' = [req EXCEPT ![p] = Failed(r, "PyMongoError")]
       /\ UNCHANGED <<mongoVars, pgVars>>
    \/ /\ req[p].pc = "dmp_delete" /\ NoneDone
       /\ LET r == req[p]
              m == Matching(rain_predictions, "prediction_id", r.id) IN
          \/ /\ m = {}
             \* res.deleted_count == 0
             /\ req' = [req EXCEPT ![p] = NotFound(r, "Prediction", r.id)]
             /\ UNCHANGED rain_predictions
          \/ /\ m # {}
             /\ rain_predictions' = delete_one(rain_predictions, "prediction_id", r.id)
             /\ req' = [req EXCEPT ![p] = Respond(r, {})]
          \/ /\ req' = [req EXCEPT ![p] = Failed(r, "PyMongoError")]
             /\ UNCHANGED rain_predictions
       /\ UNCHANGED <<counters, issued, locations, weather_observations,
                      validators, startup, migration, nextOid, clock, pgVars>>

(***************************************************************************)
(* The read endpoints: one store call each.                                *)
(***************************************************************************)
\* GET /mongo/locations/
read_mongo_locations(p) ==
    /\ req[p].pc = "idle" /\ NoneDone
    /\ LET r == NewReq("read_mongo_locations", "idle", N(0), NoBody) IN
       \/ LocationResponse(p, r, locations)
       \/ req' = [req EXCEPT ![p] = Failed(r, "PyMongoError")]
    /\ UNCHANGED <<mongoVars, pgVars>>

\* GET /mongo/locations/{location_id}
read_mongo_location(p) ==
    /\ req[p].pc = "idle" /\ NoneDone
    /\ \E id \in IdArgs("locations") :
         LET r == NewReq("read_mongo_location", "idle", id, NoBody)
             doc == find_one(locations, "location_id", id) IN
         \/ /\ doc = {}
            /\ req' = [req EXCEPT ![p] = NotFound(r, "Location", id)]
         \/ /\ doc # {}
            /\ LocationResponse(p, r, doc)
         \/ req' = [req EXCEPT ![p] = Failed(r, "PyMongoError")]
    /\ UNCHANGED <<mongoVars, pgVars>>

\* GET /mongo/observations/
read_mongo_observations(p) ==
    /\ req[p].pc = "idle" /\ NoneDone
    /\ LET r == NewReq("read_mongo_observations", "idle", N(0), NoBody) IN
       \/ /\ \A d \in weather_observations :
                Validates(MongoObservationRequired, StripId(d))
          /\ \E out \in MongoObservationList(weather_observations) :
                req' = [req EXCEPT ![p] = Respond(r, out)]
       \/ /\ \E d \in weather_observations :
                ~Validates(MongoObservationRequired, StripId(d))
          /\ req' = [req EXCEPT ![p] = Failed(r, "ValidationError")]
       \/ req' = [req EXCEPT ![p] = Failed(r, "PyMongoError")]
    /\ UNCHANGED <<mongoVars, pgVars>>

\* GET /mongo/observations/{observation_id}
read_mongo_observation(p) ==
    /\ req[p].pc = "idle" /\ NoneDone
    /\ \E id \in IdArgs("observations") :
         LET r == NewReq("read_mongo_observation", "idle", id, NoBody)
             doc == find_one(weather_observations, "observation_id", id) IN
         \/ /\ doc = {}
            /\ req' = [req EXCEPT ![p] = NotFound(r, "Observation", id)]
         \/ /\ doc # {}
            /\ ObservationResponse(p, r, doc)
         \/ req' = [req EXCEPT ![p] = Failed(r, "PyMongoError")]
    /\ UNCHANGED <<mongoVars, pgVars>>

\* GET /mongo/predictions/
read_mongo_predictions(p) ==
    /\ req[p].pc = "idle" /\ NoneDone
    /\ LET r == NewReq("read_mongo_predictions", "idle", N(0), NoBody) IN
       \/ PredictionResponse(p, r, rain_predictions)
       \/ req' = [req EXCEPT ![p] = Failed(r, "PyMongoError")]
    /\ UNCHANGED <<mongoVars, pgVars>>

\* GET /mongo/predictions/{prediction_id}
read_mongo_prediction(p) ==
    /\ req[p].pc = "idle" /\ NoneDone
    /\ \E id \in IdArgs("predictions") :
         LET r == NewReq("read_mongo_prediction", "idle", id, NoBody)
             doc == find_one(rain_predictions, "prediction_id", id) IN
         \/ /\ doc = {}
            /\ req' = [req EXCEPT ![p] = NotFound(r, "Prediction", id)]
         \/ /\ doc # {}
            /\ PredictionResponse(p, r, doc)
         \/ req' = [req EXCEPT ![p] = Failed(r, "PyMongoError")]
    /\ UNCHANGED <<mongoVars, pgVars>>

(***************************************************************************)
(* A write sent to the locations collection directly, as the store sees    *)
(* it: the document is whatever the client built.                          *)
(***************************************************************************)
NoFields == [f \in {} |-> NULL]
Field(f, opt) == IF opt = {} THEN NoFields ELSE f :> (CHOOSE v \in opt : TRUE)

\* A field is absent ({}) or holds one value.
Optional(values) == {{}} \cup {{v} : v \in values}

\* Documents with each of location_id, name and state absent or present:
\* location_id a 32-bit integer or a long, name and state a string or null.
LocationDocuments ==
    {Field("location_id", i) @@ Field("name", n) @@ Field("state", st) :
        i \in Optional({N(1), Inc(N(Int32Max))}),
        n \in Optional(Names \cup {NULL}),
        st \in Optional(States \cup {NULL})}

\* db.locations.insert_one(doc)
insert_location(p) ==
    \/ /\ req[p].pc = "idle" /\ NoneDone
       /\ Cardinality(locations) +
             Cardinality({q \in Procs : req[q].pc = "ins_send"}) <= MaxSeq
       /\ \E doc \in LocationDocuments :
            req' = [req EXCEPT ![p] = NewReq("insert_location", "ins_send", N(0), doc)]
       /\ UNCHANGED <<mongoVars, pgVars>>
    \/ /\ req[p].pc = "ins_send" /\ NoneDone
       /\ LET r == req[p] IN
          \/ /\ StoreAccepts("locations", r.body)
             /\ locations' = Inserted("locations", locations, r.body)
             /\ BumpOid("locations")
             /\ req' = [req EXCEPT ![p] = Respond(r, {})]
          \/ /\ ~StoreAccepts("locations", r.body)
             /\ req' = [req EXCEPT ![p] = Failed(r, "WriteError")]
             /\ UNCHANGED <<locations, nextOid>>
          \/ /\ req' = [req EXCEPT ![p] = Failed(r, "PyMongoError")]
             /\ UNCHANGED <<locations, nextOid>>
       /\ UNCHANGED <<counters, issued, weather_observations, rain_predictions,
                      validators, startup, migration, clock, pgVars>>

\* The response has been sent; the slot serves the next request.
Return(p) ==
    /\ req[p].pc = "done"
    /\ req' = [req EXCEPT ![p] = Idle]
    /\ UNCHANGED <<mongoVars, pgVars>>

(***************************************************************************)
(* The relational endpoints.  Every handler opens a connection with        *)
(* get_db_connection(), runs one statement, fetches, commits when it       *)
(* writes, and closes the cursor and the connection in straight-line code. *)
(* A statement's effect is pending until the commit.                       *)
(***************************************************************************)
PgTables == {"locations", "weather_observations", "rain_predictions"}
PgKinds == {"create", "read_all", "read_one", "update", "delete"}

\* The fifteen handlers: create_location, read_locations, read_location,
\* update_location, delete_location, and the same for observations and
\* predictions.
PgOps == [kind : PgKinds, table : PgTables]

PgEmpty == [rows |-> [t \in PgTables |-> {}], seq |-> [t \in PgTables |-> 0]]

\* Serial values consumed so far, over all tables.
PgSerials == pg.seq["locations"] + pg.seq["weather_observations"] + pg.seq["rain_predictions"]

\* Rows the statement of handler op returns or affects, from the committed table.
PgSelect(op, id) ==
    IF op.kind = "read_all" THEN pg.rows[op.table]
    ELSE {row \in pg.rows[op.table] : row.id = id}

\* psycopg2.Error raised by connect, execute, fetch or commit: no handler
\* catches it, and postgres_exception_handler answers 500.
PgRaised(p, r, at) == req' = [req EXCEPT ![p] = Failed(r, at)]

\* cur.close(); conn.close(); then return, or raise 404 when no row was found.
PgCloseAndReturn(p, r, found) ==
    /\ conns' = [conns EXCEPT ![p] = "closed"]
    /\ req' = [req EXCEPT ![p] =
                 IF found THEN Respond(r, r.doc)
                 ELSE Finished(r, 404, "HTTPException", <<r.body.table>>)]

\* conn = get_db_connection(): the request is admitted and connects.
pg_connect(p) ==
    /\ req[p].pc = "idle" /\ NoneDone
    /\ \E op \in PgOps :
         /\ op.kind = "create" =>
               PgSerials + Cardinality({q \in Procs : req[q].pc = "pg_execute"
                                                      /\ req[q].body.kind = "create"}) < MaxSeq
         /\ \E id \in 0..pg.seq[op.table] :
              LET r == NewReq("pg", "pg_execute", N(id), op) IN
              /\ op.kind \in {"create", "read_all"} => id = 0
              /\ \/ /\ req' = [req EXCEPT ![p] = r]
                    /\ conns' = [conns EXCEPT ![p] = "open"]
                 \/ /\ PgRaised(p, r, "connect")
                    /\ UNCHANGED conns
    /\ UNCHANGED <<mongoVars, pg>>

\* cur.execute(...)
pg_execute(p) ==
    /\ req[p].pc = "pg_execute" /\ NoneDone
    /\ LET r == req[p]
           op == r.body
           rows == PgSelect(op, r.id.lo) IN
       \/ /\ op.kind = "create"
          \* INSERT ... RETURNING: the serial is consumed, the row is pending
          /\ pg' = [pg EXCEPT !.seq[op.table] = @ + 1]
          /\ req' = [req EXCEPT ![p] =
                       [r EXCEPT !.pc = "pg_fetch",
                                 !.doc = {[id |-> pg.seq[op.table] + 1]}]]
          /\ UNCHANGED conns
       \/ /\ op.kind \in {"read_all", "read_one", "update"}
          /\ req' = [req EXCEPT ![p] = [r EXCEPT !.pc = "pg_fetch", !.doc = rows]]
          /\ UNCHANGED <<pg, conns>>
       \/ /\ op.kind = "delete"
          /\ IF rows = {}
               \* if cur.rowcount == 0: cur.close(); conn.close(); raise 404
               THEN PgCloseAndReturn(p, r, FALSE)
               ELSE /\ req' = [req EXCEPT ![p] = [r EXCEPT !.pc = "pg_commit", !.doc = rows]]
                    /\ UNCHANGED conns
          /\ UNCHANGED pg
       \/ /\ PgRaised(p, r, "execute")
          /\ UNCHANGED <<pg, conns>>
    /\ UNCHANGED mongoVars

\* row = cur.fetchone() / rows = cur.fetchall()
pg_fetch(p) ==
    /\ req[p].pc = "pg_fetch" /\ NoneDone
    /\ LET r == req[p]
           op == r.body IN
       \/ /\ op.kind \in {"create", "update"}
          /\ req' = [req EXCEPT ![p] = [r EXCEPT !.pc = "pg_commit"]]
          /\ UNCHANGED conns
       \/ /\ op.kind \in {"read_all", "read_one"}
          /\ PgCloseAndReturn(p, r, op.kind = "read_all" \/ r.doc # {})
       \/ /\ PgRaised(p, r, "fetch")
          /\ UNCHANGED conns
    /\ UNCHANGED <<mongoVars, pg>>

\* The committed table after the pending statement of handler op.
PgApply(op, rows) ==
    LET old == pg.rows[op.table]
        ids == {row.id : row \in rows} IN
    CASE op.kind = "create" -> old \cup rows
      [] op.kind = "update" -> old
      [] op.kind = "delete" -> {row \in old : row.id \notin ids}

\* conn.commit(), then cur.close(); conn.close()
pg_commit(p) ==
    /\ req[p].pc = "pg_commit" /\ NoneDone
    /\ LET r == req[p]
           op == r.body IN
       \/ /\ pg' = [pg EXCEPT !.rows[op.table] = PgApply(op, r.doc)]
          /\ PgCloseAndReturn(p, r, r.doc # {})
       \/ /\ PgRaised(p, r, "commit")
          /\ UNCHANGED <<pg, conns>>
    /\ UNCHANGED mongoVars

\* The response has been sent; the handler's connection object is dropped
\* with its frame.
PgReturn(p) ==
    /\ req[p].pc = "done"
    /\ req' = [req EXCEPT ![p] = Idle]
    /\ conns' = [conns EXCEPT ![p] = "none"]
    /\ UNCHANGED <<mongoVars, pg>>

(***************************************************************************)
(* The migration batch (src/migrations/migrate_to_mongodb.py): main opens  *)
(* the document-store client and calls migrate_all, which runs             *)
(* migrate_locations, migrate_observations, migrate_predictions inside one *)
(* try block.  Each step connects to the relational store, clears its      *)
(* collection, selects the table and inserts one document per row.         *)
(***************************************************************************)
\* The steps of migrate_all, by the table and collection they copy.
MigrationOrder == <<"locations", "weather_observations", "rain_predictions">>

\* The script is run at most MaxRuns times, one run after the other.
MaxRuns == 2

\* No run has started.  `runs` counts the runs of the script and `ok` the runs
\* that printed "Migration completed successfully!".
NotMigrating ==
    [step |-> 0, at |-> "idle", rows |-> {}, client |-> "none", error |-> FALSE,
     runs |-> 0, ok |-> 0]

\* SELECT * FROM <table>: the columns of a row.  The relational tables are
\* kept by their keys; the other columns are given one value each.
LocationRow(id) == [location_id |-> N(id), name |-> "Sydney", state |-> "NSW"]
ObservationRow(id) == [observation_id |-> N(id), location_id |-> N(1), date |-> [day |-> 1]]
PredictionRow(id) ==
    [prediction_id |-> N(id), observation_id |-> N(1), will_it_rain |-> TRUE,
     predicted_at |-> 1]

\* del d[key]
Without(d, key) == [f \in DOMAIN d \ {key} |-> d[f]]

\* location_docs.append({"name": ..., "state": ..., "pg_id": loc["location_id"]})
MigratedLocation(loc) ==
    [name |-> loc.name, state |-> loc.state, pg_id |-> loc.location_id]

\* obs_dict = dict(obs); obs_dict["pg_id"] = obs_dict["observation_id"];
\* del obs_dict["observation_id"]; the date becomes a datetime at midnight.
MigratedObservation(obs) ==
    [pg_id |-> obs.observation_id, date |-> Midnight(obs.date.day)]
        @@ Without(obs, "observation_id")

\* pred_dict = dict(pred); pred_dict["pg_id"] = pred_dict["prediction_id"];
\* del pred_dict["prediction_id"]
MigratedPrediction(pred) ==
    [pg_id |-> pred.prediction_id] @@ Without(pred, "prediction_id")

\* The document a step builds for the row with key id.
MigratedDoc(t, id) ==
    CASE t = "locations" -> MigratedLocation(LocationRow(id))
      [] t = "weather_observations" -> MigratedObservation(ObservationRow(id))
      [] OTHER -> MigratedPrediction(PredictionRow(id))

\* The collection of a name, and the collections after one has been replaced.
Collection(t) ==
    CASE t = "locations" -> locations
      [] t = "weather_observations" -> weather_observations
      [] OTHER -> rain_predictions

SetCollection(t, docs) ==
    /\ locations' = IF t = "locations" THEN docs ELSE locations
    /\ weather_observations' = IF t = "weather_observations" THEN docs ELSE weather_observations
    /\ rain_predictions' = IF t = "rain_predictions" THEN docs ELSE rain_predictions

\* verify_migration.py: SELECT COUNT(*) FROM <table> and count_documents({}).
pg_count(t) == Cardinality(pg.rows[t])

mongo_count(t) == Cardinality(Collection(t))

\* insert_many(docs), ordered: the documents are written in the order of the
\* rows, each with a new ObjectId, up to the first one the store rejects.
Written(t, ids) ==
    LET rejected == {i \in ids : ~StoreAccepts(t, MigratedDoc(t, i))} IN
    {i \in ids : \A j \in rejected : i < j}

insert_many(t, ids) ==
    {MigratedDoc(t, i) @@ [_id |-> nextOid[t] + Cardinality({j \in Written(t, ids) : j < i})]
        : i \in Written(t, ids)}

\* Variant: each step handles its own exception and the next step still runs.
MigrationRaised_next_step ==
    migration' = IF migration.step < Len(MigrationOrder)
                 THEN [migration EXCEPT !.step = @ + 1, !.at = "connect", !.error = TRUE,
                                        !.rows = {}]
                 ELSE [migration EXCEPT !.at = "except", !.error = TRUE, !.rows = {}]

\* An exception leaves the try block of migrate_all: no later step runs.
MigrationRaised ==
    migration' = [migration EXCEPT !.at = "except", !.error = TRUE, !.rows = {}]

\* A step has returned: the next one starts, or the try block is left.
MigrationNextStep ==
    migration' = IF migration.step < Len(MigrationOrder)
                 THEN [migration EXCEPT !.step = @ + 1, !.at = "connect", !.rows = {}]
                 ELSE [migration EXCEPT !.at = "completed", !.rows = {}, !.ok = @ + 1]

\* main: mongo_client = initialize_mongodb(); migrate_all(mongo_client)
migrate_all ==
    /\ \/ migration.at = "idle"
       \/ migration.at = "exit" /\ migration.runs < MaxRuns
    /\ migration' = [migration EXCEPT !.step = 1, !.at = "connect", !.client = "open",
                                      !.error = FALSE, !.runs = @ + 1]
    /\ UNCHANGED <<counters, locations, weather_observations, rain_predictions,
                   validators, startup, nextOid, clock, req, issued, pgVars>>

\* pg_conn = get_pg_connection(); the step's own MongoClient connects lazily.
migrate_connect ==
    /\ migration.at = "connect"
    /\ \/ migration' = [migration EXCEPT !.at = "delete"]
       \/ MigrationRaised
    /\ UNCHANGED <<counters, locations, weather_observations, rain_predictions,
                   validators, startup, nextOid, clock, req, issued, pgVars>>

\* Variant: the step does not clear its collection before it copies the rows.
migrate_delete_skipped ==
    /\ migration.at = "delete"
    /\ \/ migration' = [migration EXCEPT !.at = "select"]
       \/ MigrationRaised
    /\ UNCHANGED <<counters, locations, weather_observations, rain_predictions,
                   validators, startup, nextOid, clock, req, issued, pgVars>>

\* mongo_db.<collection>.delete_many({})
migrate_delete ==
    /\ migration.at = "delete"
    /\ \/ /\ SetCollection(MigrationOrder[migration.step], {})
          /\ migration' = [migration EXCEPT !.at = "select"]
       \/ /\ MigrationRaised
          /\ UNCHANGED <<locations, weather_observations, rain_predictions>>
    /\ UNCHANGED <<counters, validators, startup, nextOid, clock, req, issued, pgVars>>

\* pg_cur.execute("SELECT * FROM <table>"); rows = pg_cur.fetchall()
migrate_select ==
    /\ migration.at = "select"
    /\ \/ migration' = [migration EXCEPT
                           !.at = "insert",
                           !.rows = {row.id : row \in pg.rows[MigrationOrder[migration.step]]}]
       \/ MigrationRaised
    /\ UNCHANGED <<counters, locations, weather_observations, rain_predictions,
                   validators, startup, nextOid, clock, req, issued, pgVars>>

\* if rows: mongo_db.<collection>.insert_many(docs)
migrate_insert ==
    /\ migration.at = "insert"
    /\ LET t == MigrationOrder[migration.step]
           ids == migration.rows IN
       \/ /\ ids = {}
          /\ MigrationNextStep
          /\ UNCHANGED <<locations, weather_observations, rain_predictions, nextOid>>
       \/ /\ ids # {}
          /\ SetCollection(t, Collection(t) \cup insert_many(t, ids))
          /\ nextOid' = [nextOid EXCEPT ![t] = @ + Cardinality(Written(t, ids))]
          /\ IF Written(t, ids) = ids THEN MigrationNextStep
             \* BulkWriteError: a document was rejected by the validator
             ELSE MigrationRaised
       \/ /\ ids # {}
          /\ MigrationRaised
          /\ UNCHANGED <<locations, weather_observations, rain_predictions, nextOid>>
    /\ UNCHANGED <<counters, validators, startup, clock, req, issued, pgVars>>

\* except Exception as e: print(...); finally: mongo_client.close()
migrate_finally ==
    /\ migration.at \in {"except", "completed"}
    /\ migration' = [migration EXCEPT !.at = "exit", !.client = "closed"]
    /\ UNCHANGED <<counters, locations, weather_observations, rain_predictions,
                   validators, startup, nextOid, clock, req, issued, pgVars>>

(***************************************************************************)
(* Specifications.  Each starts the API on a database state and lets       *)
(* clients call a group of endpoints in any interleaving.                  *)
(***************************************************************************)
NoCounters == [n \in {} |-> N(0)]

\* The API started on a database: `existing` are the collections that exist
\* at startup, `attached` the validators an earlier startup left on them, c0
\* the counter documents; setup_mongodb_validation has run.
InitStore(existing, attached, c0, failAt) ==
    /\ counters = c0
    /\ locations = {}
    /\ weather_observations = {}
    /\ rain_predictions = {}
    /\ validators = setup_mongodb_validation(existing, attached, failAt)
    /\ startup = startup_event(existing, attached, failAt)
    /\ nextOid = [c \in CollectionNames |-> 1]
    /\ clock = 1
    /\ req = [p \in Procs |-> Idle]
    /\ issued = [n \in CounterNames |-> <<>>]
    /\ pg = PgEmpty
    /\ conns = [p \in Procs |-> "none"]
    /\ migration = NotMigrating

\* A fresh database: no collection and no counter exists.
Init == InitStore({}, {}, NoCounters, 0)

\* Clients of the Location and Observation endpoints.
Next ==
    \E p \in Procs :
        \/ create_mongo_location(p)
        \/ update_mongo_location(p)
        \/ delete_mongo_location(p)
        \/ create_mongo_observation(p)
        \/ update_mongo_observation(p)
        \/ delete_mongo_observation(p)
        \/ Return(p)

Spec == Init /\ [][Next]_vars

\* A database the Location and Observation endpoints have filled: Location 1
\* with Observations 1 and 2, the counters at the last id issued.
InitPred ==
    /\ counters = ("locations" :> N(1)) @@ ("observations" :> N(2))
    /\ locations = {[_id |-> 1, location_id |-> N(1), name |-> "Sydney", state |-> "NSW"]}
    /\ weather_observations =
         {[_id |-> i, observation_id |-> N(i), location_id |-> N(1), date |-> Midnight(1)]
            : i \in 1..2}
    /\ rain_predictions = {}
    /\ validators = {}
    /\ startup = FreshStartup
    /\ nextOid = [c \in CollectionNames |->
                    IF c = "locations" THEN 2 ELSE IF c = "weather_observations" THEN 3 ELSE 1]
    /\ clock = 1
    /\ req = [p \in Procs |-> Idle]
    /\ issued = [n \in CounterNames |->
                   IF n = "locations" THEN <<N(1)>>
                   ELSE IF n = "observations" THEN <<N(1), N(2)>> ELSE <<>>]
    /\ pg = PgEmpty
    /\ conns = [p \in Procs |-> "none"]
    /\ migration = NotMigrating

\* Clients creating Predictions, and clients deleting the Location and the
\* Observations.
NextPred ==
    \E p \in Procs :
        \/ delete_mongo_location(p)
        \/ delete_mongo_observation(p)
        \/ create_mongo_prediction(p)
        \/ Return(p)

SpecPred == InitPred /\ [][NextPred]_vars

\* The same database after create_mongo_prediction has stored Prediction 1
\* for Observation 1 at server time 1.
InitUpd ==
    /\ counters = ("locations" :> N(1)) @@ ("observations" :> N(2)) @@ ("predictions" :> N(1))
    /\ locations = {[_id |-> 1, location_id |-> N(1), name |-> "Sydney", state |-> "NSW"]}
    /\ weather_observations =
         {[_id |-> i, observation_id |-> N(i), location_id |-> N(1), date |-> Midnight(1)]
            : i \in 1..2}
    /\ rain_predictions =
         {[_id |-> 1, prediction_id |-> N(1), observation_id |-> N(1), location_id |-> N(1),
           will_it_rain |-> TRUE, predicted_at |-> 1]}
    /\ validators = {}
    /\ startup = FreshStartup
    /\ nextOid = [c \in CollectionNames |->
                    IF c = "locations" THEN 2 ELSE IF c = "weather_observations" THEN 3 ELSE 2]
    /\ clock = 2
    /\ req = [p \in Procs |-> Idle]
    /\ issued = [n \in CounterNames |->
                   IF n = "locations" THEN <<N(1)>>
                   ELSE IF n = "observations" THEN <<N(1), N(2)>> ELSE <<N(1)>>]
    /\ pg = PgEmpty
    /\ conns = [p \in Procs |-> "none"]
    /\ migration = NotMigrating

\* Clients updating and deleting the Prediction, and clients deleting the
\* Location and the Observations.
NextUpd ==
    \E p \in Procs :
        \/ delete_mongo_location(p)
        \/ delete_mongo_observation(p)
        \/ update_mongo_prediction(p)
        \/ delete_mongo_prediction(p)
        \/ Return(p)

SpecUpd == InitUpd /\ [][NextUpd]_vars

\* A database with two Locations and one Observation, at the second.
InitCopy ==
    /\ counters = ("locations" :> N(2)) @@ ("observations" :> N(1))
    /\ locations = {[_id |-> i, location_id |-> N(i), name |-> "Sydney", state |-> "NSW"]
                      : i \in 1..2}
    /\ weather_observations =
         {[_id |-> 1, observation_id |-> N(1), location_id |-> N(2), date |-> Midnight(1)]}
    /\ rain_predictions = {}
    /\ validators = {}
    /\ startup = FreshStartup
    /\ nextOid = [c \in CollectionNames |->
                    IF c = "locations" THEN 3 ELSE IF c = "weather_observations" THEN 2 ELSE 1]
    /\ clock = 1
    /\ req = [p \in Procs |-> Idle]
    /\ issued = [n \in CounterNames |->
                   IF n = "locations" THEN <<N(1), N(2)>>
                   ELSE IF n = "observations" THEN <<N(1)>> ELSE <<>>]
    /\ pg = PgEmpty
    /\ conns = [p \in Procs |-> "none"]
    /\ migration = NotMigrating

\* Clients creating Predictions while others move the Observations to
\* another Location.
NextCopy ==
    \E p \in Procs :
        \/ update_mongo_observation(p)
        \/ create_mongo_prediction(p)
        \/ Return(p)

SpecCopy == InitCopy /\ [][NextCopy]_vars

\* Clients of the relational endpoints.
NextPg ==
    \E p \in Procs :
        \/ pg_connect(p)
        \/ pg_execute(p)
        \/ pg_fetch(p)
        \/ pg_commit(p)
        \/ PgReturn(p)

SpecPg == Init /\ [][NextPg]_vars

\* What an earlier startup left attached: nothing, or every validator.
EarlierValidators == {{}, CollectionNames}

\* A long-lived database: the three collections exist, so startup attaches
\* the schema contracts (up to the first collMod that fails), and the
\* locations counter is one short of the largest 32-bit integer.
InitOverflow ==
    \E failAt \in 0..Len(SetupOrder), attached \in EarlierValidators :
        InitStore(CollectionNames, attached, "locations" :> N(Int32Max - 1), failAt)

\* Clients creating Locations and creating and updating Observations.
NextOverflow ==
    \E p \in Procs :
        \/ create_mongo_location(p)
        \/ create_mongo_observation(p)
        \/ update_mongo_observation(p)
        \/ Return(p)

SpecOverflow == InitOverflow /\ [][NextOverflow]_vars

\* The three collections exist and every collMod succeeded: the Location
\* contract is in force at validationLevel 'strict'.
InitContract == InitStore(CollectionNames, {}, NoCounters, 0)

\* Clients writing documents to the locations collection.
NextContract ==
    \E p \in Procs :
        \/ insert_location(p)
        \/ Return(p)

SpecContract == InitContract /\ [][NextContract]_vars

\* Requests that create a document are admitted while fewer than MaxAllocs
\* ids have been allocated, over the three counters.
DocsAllowed ==
    \/ \E q \in Procs : req[q].pc # "idle"
    \/ Allocations("locations") + Allocations("observations")
          + Allocations("predictions") < MaxAllocs

\* One client at a time sending any request of the /mongo API to a fresh
\* database, with other clients reading.
NextAll ==
    \/ \E p \in {1} :
          \/ DocsAllowed /\ create_mongo_location(p)
          \/ update_mongo_location(p)
          \/ delete_mongo_location(p)
          \/ DocsAllowed /\ create_mongo_observation(p)
          \/ update_mongo_observation(p)
          \/ delete_mongo_observation(p)
          \/ DocsAllowed /\ create_mongo_prediction(p)
          \/ update_mongo_prediction(p)
          \/ delete_mongo_prediction(p)
    \/ \E p \in Procs :
          \/ read_mongo_locations(p)
          \/ read_mongo_location(p)
          \/ read_mongo_observations(p)
          \/ read_mongo_observation(p)
          \/ read_mongo_predictions(p)
          \/ read_mongo_prediction(p)
          \/ Return(p)

SpecAll == Init /\ [][NextAll]_vars

\* A request of the scenario sent from slot p: it names id 1 wherever it
\* names an id (a 404 tells the id it was sent with), and will_it_rain is true.
Sends(p, field) ==
    /\ req[p].pc = "idle"
    /\ req'[p].status = 404 => req'[p].detail[2] = N(1)
    /\ (req'[p].pc # "done" /\ field = "id") => req'[p].id = N(1)
    /\ (req'[p].pc # "done" /\ field = "location_id") => req'[p].body.location_id = N(1)
    /\ (req'[p].pc # "done" /\ field = "observation_id") =>
          (req'[p].body.observation_id = N(1) /\ req'[p].body.will_it_rain)

\* The client of the scenario goes on with the request it has sent.
Continues(p, op) == req[p].pc # "idle" /\ req[p].op = op

\* The scenario, sent by one client to a fresh database, each request after
\* the one before it has been answered: create Location (Sydney, NSW), create
\* Observation (location 1, 2023-01-01), create Prediction (observation 1,
\* will_it_rain true), delete Location 1, read Observation 1.  Other clients
\* read meanwhile.
NextScenario ==
    \/ \E p \in {1} :
          \/ /\ create_mongo_location(p)
             /\ \/ Continues(p, "create_mongo_location")
                \/ Allocations("locations") = 0 /\ Sends(p, "")
          \/ /\ create_mongo_observation(p)
             /\ \/ Continues(p, "create_mongo_observation")
                \/ /\ locations # {} /\ Allocations("observations") = 0
                   /\ Sends(p, "location_id")
          \/ /\ create_mongo_prediction(p)
             /\ \/ Continues(p, "create_mongo_prediction")
                \/ /\ weather_observations # {} /\ Allocations("predictions") = 0
                   /\ Sends(p, "observation_id")
          \/ /\ delete_mongo_location(p)
             /\ \/ Continues(p, "delete_mongo_location")
                \/ /\ rain_predictions # {} /\ locations # {}
                   /\ Sends(p, "id")
          \/ /\ read_mongo_observation(p)
             /\ rain_predictions # {} /\ locations = {}
             /\ Sends(p, "id")
    \/ \E p \in Procs \ {1} :
          \/ read_mongo_locations(p)
          \/ read_mongo_location(p)
          \/ read_mongo_observations(p)
          \/ read_mongo_observation(p)
          \/ read_mongo_predictions(p)
          \/ read_mongo_prediction(p)
    \/ \E p \in Procs : Return(p)

SpecScenario == Init /\ [][NextScenario]_vars

\* The rows a relational table holds: any of the first MaxSeq keys.
PgFilled(rows) ==
    [rows |-> rows, seq |-> [t \in PgTables |-> MaxSeq]]

\* What the document store holds before the migration runs: nothing, or the
\* documents the API has written (a Location, an Observation, a Prediction).
StoreBefore ==
    {[locations |-> {}, weather_observations |-> {}, rain_predictions |-> {}],
     [locations |-> {[_id |-> 1, location_id |-> N(1), name |-> "Sydney", state |-> "NSW"]},
      weather_observations |->
          {[_id |-> 1, observation_id |-> N(1), location_id |-> N(1), date |-> Midnight(1)]},
      rain_predictions |->
          {[_id |-> 1, prediction_id |-> N(1), observation_id |-> N(1),
            location_id |-> N(1), will_it_rain |-> TRUE, predicted_at |-> 1]}]}

\* The migration is run, with no request being served, on relational tables
\* holding any rows and a document store that is empty or in use, with the
\* validators attached or not.
InitMigrate ==
    \E rows \in [PgTables -> SUBSET {[id |-> i] : i \in 1..MaxSeq}],
       before \in StoreBefore, attached \in EarlierValidators :
        /\ counters = [n \in CounterNames |-> N(1)]
        /\ locations = before.locations
        /\ weather_observations = before.weather_observations
        /\ rain_predictions = before.rain_predictions
        /\ validators = attached
        /\ startup = startup_event(CollectionNames, attached, 1)
        /\ nextOid = [c \in CollectionNames |-> 2]
        /\ clock = 1
        /\ req = [p \in Procs |-> Idle]
        /\ issued = [n \in CounterNames |-> <<N(1)>>]
        /\ pg = PgFilled(rows)
        /\ conns = [p \in Procs |-> "none"]
        /\ migration = NotMigrating

NextMigrate ==
    \/ migrate_all
    \/ migrate_connect
    \/ migrate_delete
    \/ migrate_select
    \/ migrate_insert
    \/ migrate_finally

SpecMigrate == InitMigrate /\ [][NextMigrate]_vars

\* A request that creates a document is admitted while the ids allocated and
\* the creates that have yet to allocate theirs are fewer than MaxAllocs, over
\* the three counters.
WritesAllowed(p) ==
    \/ req[p].pc # "idle"
    \/ Allocations("locations") + Allocations("observations") + Allocations("predictions")
          + Cardinality({q \in Procs : req[q].pc = "cmo_alloc"}) < MaxAllocs

\* Clients creating documents of the three kinds on a fresh database, at the
\* same time as each other and as one client that updates and deletes them.
NextWriters ==
    \/ \E p \in Procs :
          \/ WritesAllowed(p) /\ create_mongo_location(p)
          \/ WritesAllowed(p) /\ create_mongo_observation(p)
          \/ WritesAllowed(p) /\ create_mongo_prediction(p)
          \/ Return(p)
    \/ \E p \in {1} :
          \/ update_mongo_location(p)
          \/ update_mongo_observation(p)
          \/ update_mongo_prediction(p)
          \/ delete_mongo_location(p)
          \/ delete_mongo_observation(p)
          \/ delete_mongo_prediction(p)

SpecWriters == Init /\ [][NextWriters]_vars

\* Clients updating and deleting the documents of a database that holds a
\* Location, its Observations and a Prediction.
NextUpdDel ==
    \E p \in Procs :
        \/ update_mongo_location(p)
        \/ delete_mongo_location(p)
        \/ update_mongo_observation(p)
        \/ delete_mongo_observation(p)
        \/ update_mongo_prediction(p)
        \/ delete_mongo_prediction(p)
        \/ Return(p)

SpecUpdDel == InitUpd /\ [][NextUpdDel]_vars

\* Clients that only create.
NextCreate ==
    \E p \in Procs :
        \/ create_mongo_location(p)
        \/ create_mongo_observation(p)
        \/ create_mongo_prediction(p)
        \/ Return(p)

SpecCreate == Init /\ [][NextCreate]_vars

(***************************************************************************)
(* Properties.                                                             *)
(***************************************************************************)
\* The location_id values of the Locations in the store.
LocationIds == {d.location_id : d \in locations}

\* A step of slot p that ends its request.
Finishes(p) == req[p].pc # "done" /\ req'[p].pc = "done"

\* C1: calls of get_next_sequence_value on a counter that does not exist,
\* however they interleave, return 1, 2, ..., N in the order the store serves
\* them: the first call creates the counter and returns 1, no value is
\* returned twice, and the counter document holds the last value returned.
C1_SequenceFromOne ==
    \A n \in CounterNames :
        /\ \A i \in 1..Len(issued[n]) : issued[n][i] = N(i)
        /\ (n \in DOMAIN counters) <=> (issued[n] # <<>>)
        /\ n \in DOMAIN counters => counters[n] = N(Len(issued[n]))

\* Two create_mongo_observation requests in flight together hold 1 and 2.
C1_Witness ==
    \E p, q \in Procs :
        /\ req[p].pc = "cmo_insert" /\ req[p].alloc = {N(1)}
        /\ req[q].pc = "cmo_insert" /\ req[q].alloc = {N(2)}

\* C2: create_mongo_prediction answers 404 for an observation_id no
\* Observation has before it has allocated a prediction id: the request that
\* gets the 404 from the Observation lookup holds no allocated id.
C2_NotFoundBeforeAllocation ==
    [][\A p \in Procs :
          (req[p].pc = "cmp_find_obs" /\ Finishes(p) /\ req'[p].status = 404)
              => req[p].alloc = {}]_vars

\* C3: the first step of create_mongo_observation, the Location lookup, writes
\* nothing; the request goes on to the allocator only when a Location has the
\* body's location_id; otherwise it ends there with 404 naming a location_id
\* no Location has (or with 500 when the lookup itself raised), so the counter
\* is not incremented and nothing is inserted.
C3_NoLocationNoObservation ==
    [][\A p \in Procs :
          (req[p].pc = "idle" /\ req'[p].op = "create_mongo_observation") =>
              /\ UNCHANGED <<counters, weather_observations>>
              /\ req'[p].pc \in {"cmo_alloc", "done"}
              /\ req'[p].pc = "cmo_alloc" => req'[p].body.location_id \in LocationIds
              /\ req'[p].pc = "done" =>
                    \/ /\ req'[p].status = 404
                       /\ req'[p].detail[1] = "Location"
                       /\ req'[p].detail[2] \notin LocationIds
                    \/ req'[p].status = 500 /\ req'[p].err = "PyMongoError"]_vars

\* A create_mongo_observation request was answered 404 for location_id 0 while
\* a Location exists; no Observation id was allocated, no Observation stored.
C3_Witness ==
    \E p \in Procs :
        /\ req[p].op = "create_mongo_observation" /\ req[p].status = 404
        /\ req[p].detail = <<"Location", N(0)>>
        /\ locations # {}
        /\ "observations" \notin DOMAIN counters
        /\ weather_observations = {}

\* C4: every create_mongo_observation or update_mongo_observation request
\* answered 200 has, earlier in the same request, looked up the body's
\* location_id and found a Location, whatever integer the location_id is.
C4_SuccessFollowsLookup ==
    [][\A p \in Procs :
          (req[p].op \in {"create_mongo_observation", "update_mongo_observation"}
             /\ Finishes(p) /\ req'[p].status = 200)
              => req[p].body.location_id \in req[p].verified]_vars

\* C5: when create_mongo_prediction has found the Observation and no Location
\* has the Observation's location_id, the Location lookup ends the request
\* with 404 naming that location_id (or 500 when the lookup raised), and no
\* Prediction document is written.
C5_ObservationWithoutLocation ==
    [][\A p \in Procs :
          (req[p].pc = "cmp_verify" /\ req'[p] # req[p]
             /\ (CHOOSE d \in req[p].doc : TRUE).location_id \notin LocationIds)
              => /\ req'[p].pc = "done"
                 /\ \/ /\ req'[p].status = 404
                       /\ req'[p].detail =
                            <<"Location", (CHOOSE d \in req[p].doc : TRUE).location_id>>
                    \/ req'[p].status = 500 /\ req'[p].err = "PyMongoError"
                 /\ UNCHANGED rain_predictions]_vars

\* create_mongo_prediction was answered 404 for Location 1 while the
\* Observations still exist, and no Prediction is in the store.
C5_Witness ==
    \E p \in Procs :
        /\ req[p].op = "create_mongo_prediction" /\ req[p].status = 404
        /\ req[p].detail = <<"Location", N(1)>>
        /\ Cardinality(weather_observations) = 2
        /\ rain_predictions = {}

\* C6: a relational endpoint that has returned or raised has closed the
\* connection it opened, on every exit path.
C6_ConnectionClosedOnExit ==
    \A p \in Procs : (req[p].pc = "done" /\ req[p].op = "pg") => conns[p] # "open"

\* C7: a write the store rejects for the collection's schema contract leaves
\* the collections as they were and is answered 422, not the 500 of a storage
\* failure.
C7_ValidationFailureIs422 ==
    [][\A p \in Procs :
          (Finishes(p) /\ req'[p].err = "WriteError")
              => /\ UNCHANGED <<locations, weather_observations, rain_predictions>>
                 /\ req'[p].status = 422]_vars

\* C8: delete_mongo_location and delete_mongo_observation succeed whenever the
\* document exists, whether or not other documents refer to it (only a store
\* failure stops them); a successful delete removes exactly the one document
\* with the requested id, and no delete step touches another collection.
C8_DeleteLeavesChildren ==
    [][\A p \in Procs :
          /\ (req[p].pc = "dml_delete" /\ req'[p] # req[p]) =>
                LET m == {d \in locations : d.location_id = req[p].id} IN
                /\ m # {} => (req'[p].status = 200 \/ req'[p].err = "PyMongoError")
                /\ req'[p].status = 200 => \E d \in m : locations' = locations \ {d}
                /\ req'[p].status # 200 => UNCHANGED locations
                /\ UNCHANGED <<weather_observations, rain_predictions>>
          /\ (req[p].pc = "dmo_delete" /\ req'[p] # req[p]) =>
                LET m == {d \in weather_observations : d.observation_id = req[p].id} IN
                /\ m # {} => (req'[p].status = 200 \/ req'[p].err = "PyMongoError")
                /\ req'[p].status = 200 =>
                      \E d \in m : weather_observations' = weather_observations \ {d}
                /\ req'[p].status # 200 => UNCHANGED weather_observations
                /\ UNCHANGED <<locations, rain_predictions>>]_vars

\* The Location was deleted with 200 while both Observations and a Prediction
\* that refer to it stay in the store.
C8_Witness ==
    \E p \in Procs :
        /\ req[p].op = "delete_mongo_location" /\ req[p].status = 200
        /\ locations = {}
        /\ \E o1, o2 \in weather_observations :
              o1 # o2 /\ o1.location_id = N(1) /\ o2.location_id = N(1)
        /\ \E d \in rain_predictions : d.location_id = N(1)

\* C9: no step deletes a counter or lowers its value, and a value a counter
\* returns was never returned by it before: not after a failed insert, not
\* after the entity that had the id was deleted.
C9_CountersOnlyGrow ==
    [][/\ DOMAIN counters \subseteq DOMAIN counters'
       /\ \A n \in DOMAIN counters : NumLeq(counters[n], counters'[n])
       /\ \A n \in CounterNames :
             issued'[n] # issued[n] =>
                 issued'[n][Len(issued'[n])] \notin Range(issued[n])]_vars

\* Ids 1 and 2 were returned for Locations, a Location has just been deleted,
\* and no Location is left: the counter stays at 2.
C9_Witness ==
    /\ issued["locations"] = <<N(1), N(2)>>
    /\ counters["locations"] = N(2)
    /\ locations = {}
    /\ \E p \in Procs : req[p].op = "delete_mongo_location" /\ req[p].status = 200

\* C10: the insert of create_mongo_observation does not look at the Locations
\* again: it writes the document for the location_id the request's earlier
\* lookup found, a Location that was created, whether or not a
\* delete_mongo_location has removed that Location in between.
C10_InsertRestsOnEarlierLookup ==
    [][\A p \in Procs :
          (req[p].pc = "cmo_insert" /\ req'[p].pc = "cmo_find") =>
              /\ req[p].verified = {req[p].body.location_id}
              /\ req[p].body.location_id \in Range(issued["locations"])
              /\ \E d \in weather_observations' \ weather_observations :
                    d.location_id = req[p].body.location_id]_vars

\* Location 1 is gone, deleted by the slot that now runs a later
\* create_mongo_observation holding Observation id 1; the other slot's
\* create_mongo_observation, which had found Location 1, was given id 2 after
\* that, inserted Observation 2 for Location 1 and was answered 200.
C10_Witness ==
    \E p, q \in Procs :
        /\ req[p].op = "create_mongo_observation" /\ req[p].status = 200
        /\ req[q].op = "create_mongo_observation" /\ req[q].alloc = {N(1)}
        /\ N(1) \notin LocationIds
        /\ \E d \in weather_observations :
              d.observation_id = N(2) /\ d.location_id = N(1)

\* C11: an update_mongo_prediction request whose observation_id is the stored
\* one goes from the Prediction lookup straight to the update, with no
\* Observation or Location lookup; its update succeeds whenever the Prediction
\* is there (only a store failure stops it), whatever Observations and
\* Locations exist, and changes will_it_rain and predicted_at of that one
\* document only, so that repeating the request gives the same record up to
\* predicted_at.
C11_UnchangedReferenceNotRevalidated ==
    [][\A p \in Procs :
          /\ (req[p].pc = "idle" /\ req'[p].op = "update_mongo_prediction"
                /\ req'[p].pc # "done"
                /\ \E d \in rain_predictions :
                      /\ d.prediction_id = req'[p].id
                      /\ d.observation_id = req'[p].body.observation_id)
               => (req'[p].pc = "ump_now" /\ req'[p].verified = {} /\ req'[p].doc = {})
          /\ (req[p].pc = "ump_update" /\ req'[p] # req[p]) =>
                LET m == {d \in rain_predictions : d.prediction_id = req[p].id} IN
                /\ req[p].verified = {} /\ req[p].doc = {}
                /\ UNCHANGED <<locations, weather_observations>>
                /\ m # {} => (req'[p].pc = "ump_find" \/ req'[p].err = "PyMongoError")
                /\ req'[p].pc = "ump_find" =>
                      \E d \in m :
                          rain_predictions' = (rain_predictions \ {d}) \cup
                              {[d EXCEPT !.will_it_rain = req[p].body.will_it_rain,
                                         !.predicted_at = req[p].now]}
                /\ req'[p].pc # "ump_find" => UNCHANGED rain_predictions]_vars

\* update_mongo_prediction was answered 200 with Prediction 1 still referring
\* to Observation 1 and Location 1, with every Observation and the Location
\* deleted.
C11_Witness ==
    \E p \in Procs :
        /\ req[p].op = "update_mongo_prediction" /\ req[p].status = 200
        /\ locations = {} /\ weather_observations = {}
        /\ \E d \in req[p].data :
              d.prediction_id = N(1) /\ d.observation_id = N(1) /\ d.location_id = N(1)

\* C12: create_mongo_prediction stores, as the Prediction's location_id, the
\* location_id of the Observation it looked up under the request's
\* observation_id, whichever Observation and Location that is and whatever
\* location_id the client sent.
C12_LocationCopiedFromObservation ==
    [][\A p \in Procs :
          /\ (req[p].pc = "cmp_find_obs" /\ req'[p].pc = "cmp_verify") =>
                /\ req'[p].doc # {}
                /\ req'[p].doc \subseteq
                     {o \in weather_observations :
                         o.observation_id = req[p].body.observation_id}
          /\ (req[p].pc = "cmp_insert" /\ req'[p].pc = "cmp_find") =>
                \E d \in rain_predictions' \ rain_predictions :
                    /\ rain_predictions' = rain_predictions \cup {d}
                    /\ "location_id" \in DOMAIN d
                    /\ d.observation_id = req[p].body.observation_id
                    /\ \A o \in req[p].doc : d.location_id = o.location_id]_vars

\* A create_mongo_prediction for Observation 1, sent with location_id 0, was
\* answered with the Prediction at Location 2, where Observation 1 is.
C12_Witness ==
    \E p \in Procs :
        /\ req[p].op = "create_mongo_prediction" /\ req[p].status = 200
        /\ \E d \in req[p].data : d.observation_id = N(1) /\ d.location_id = N(2)
        /\ \E o \in weather_observations :
              o.observation_id = N(1) /\ o.location_id = N(2)
        /\ N(2) \notin ClientLocations

\* C13: with the server's time a clock that never goes back, the predicted_at
\* a Prediction is stored with never moves backwards: no step replaces the
\* predicted_at of a stored Prediction by an earlier one.
C13_PredictedAtNeverMovesBack ==
    [][\A d \in rain_predictions, e \in rain_predictions' :
          d.prediction_id = e.prediction_id => e.predicted_at >= d.predicted_at]_vars

\* C20: an update_mongo_prediction request with an observation_id other than
\* the stored one, whose Observation exists and whose Location exists, goes on
\* to the update: once the Observation and its Location have been found, the
\* request is not failed by anything but a store failure.
C20_ChangedReferenceUpdateProceeds ==
    [][\A p \in Procs :
          (/\ req[p].pc = "ump_verify" /\ req'[p] # req[p]
           /\ \A o \in req[p].doc : verify_location_exists(locations, o.location_id))
          => (req'[p].status # 500 \/ req'[p].err = "PyMongoError")]_vars

\* C19: a /mongo request ends in success, in NotFound (404), or in a 500 that
\* a raising store call caused: every request answered 500 was failed by an
\* exception of the store (the driver's error or its rejection of a write).
C19_ServerErrorOnlyFromStore ==
    \A p \in Procs :
        (req[p].pc = "done" /\ req[p].status = 500)
            => req[p].err \in {"PyMongoError", "WriteError"}

\* The collection a handler writes its document to.
WrittenCollection(op) ==
    CASE op \in {"create_mongo_location", "update_mongo_location"} -> "locations"
      [] op \in {"create_mongo_observation", "update_mongo_observation"} ->
            "weather_observations"
      [] OTHER -> "rain_predictions"

\* The collections whose collMod raised or was not reached at this startup.
Affected ==
    IF startup.failure = 0 THEN {}
    ELSE {SetupOrder[j] : j \in startup.failure..Len(SetupOrder)}

\* C18 as stated: when a collMod call of setup_mongodb_validation fails, the
\* API serves requests and writes to the affected collections are accepted
\* without schema enforcement: no write to an affected collection is
\* rejected by the store.
C18_FailedSetupLeavesWritesUnchecked ==
    \A p \in Procs :
        (req[p].pc = "done" /\ req[p].err = "WriteError")
            => WrittenCollection(req[p].op) \notin Affected

\* C18, amended: whichever collMod call fails, startup ends and the API
\* serves requests; the validators in force are those the calls before the
\* failing one applied and those an earlier startup left attached, and the
\* store rejects a write only to a collection holding one of these.  A write
\* to an affected collection is accepted without enforcement when no earlier
\* startup attached its validator.
C18_FailedSetupKeepsEarlierValidators ==
    /\ validators = startup.attached \cup (CollectionNames \ Affected)
    /\ \A p \in Procs :
          (req[p].pc = "done" /\ req[p].err = "WriteError")
              => WrittenCollection(req[p].op) \in validators

\* The collMod of locations failed at startup with nothing attached before:
\* weather_observations is checked, locations is not, and a Location whose
\* location_id is no 32-bit integer was stored and returned.
C18_Witness ==
    \E p \in Procs :
        /\ startup.failure = 2 /\ startup.attached = {}
        /\ "weather_observations" \in validators /\ "locations" \notin validators
        /\ req[p].op = "create_mongo_location" /\ req[p].status = 200
        /\ \E d \in req[p].data : ~IsBsonInt(d.location_id) /\ ~LocationContract(d)
        /\ \E d \in locations : ~LocationContract(d)

\* C17: with the Location contract in force at strict level, a write of a
\* Location document without name or without location_id is rejected and
\* nothing is persisted, and a document with a 32-bit integer location_id and
\* a string name is stored as sent, with state absent and with state null
\* (unless the store fails).
C17_LocationContractRequiredFields ==
    [][\A p \in Procs :
          (req[p].pc = "ins_send" /\ req'[p] # req[p]) =>
             LET d == req[p].body IN
             /\ "locations" \in validators
             /\ (~Has(d, "name") \/ ~Has(d, "location_id")) =>
                   (req'[p].err = "WriteError" \/ req'[p].err = "PyMongoError")
             /\ req'[p].status = 500 => locations' = locations
             /\ (/\ Has(d, "name") /\ Has(d, "location_id")
                 /\ IsBsonInt(d.location_id) /\ d.name \in Names
                 /\ (~Has(d, "state") \/ d.state = NULL)) =>
                   \/ req'[p].err = "PyMongoError"
                   \/ /\ req'[p].status = 200
                      /\ \E e \in locations' \ locations :
                            /\ StripId(e) = d
                            /\ locations' = locations \cup {e}]_vars

\* A Location without state and one with state null are stored, and a write
\* was rejected by the contract.
C17_Witness ==
    /\ "locations" \in validators
    /\ \E d \in locations : ~Has(d, "state") /\ d.name \in Names
    /\ \E d \in locations : Has(d, "state") /\ d.state = NULL
    /\ \E p \in Procs : req[p].op = "insert_location" /\ req[p].err = "WriteError"

\* C16: no response of a /mongo endpoint (create, read one, list, update,
\* delete; Locations, Observations, Predictions) carries the store's `_id`:
\* no record of a response's data has the field, and the response models
\* drop it from whatever document they are given, a document lacking the
\* declared fields or holding others included.
C16_NoObjectIdInResponses ==
    /\ \A p \in Procs : \A d \in req[p].data : "_id" \notin DOMAIN d
    /\ \A doc \in LocationDocuments :
          /\ "_id" \notin DOMAIN MongoLocation(doc @@ [_id |-> 1, pg_id |-> N(1)])
          /\ "_id" \notin DOMAIN MongoPrediction(doc @@ [_id |-> 1, pg_id |-> N(1)])

\* create_mongo_location has answered with the Location it stored: the stored
\* document carries the `_id` that insert_one also put into the handler's data.
C16_Witness ==
    \E p \in Procs :
        /\ req[p].op = "create_mongo_location" /\ req[p].status = 200
        /\ \E d \in req[p].data : \E e \in locations :
              /\ "_id" \in DOMAIN e
              /\ e.location_id = d.location_id /\ DOMAIN d = DOMAIN e \ {"_id"}

\* C14: in the scenario from an empty store with no counters, no request is
\* answered 404 or failed by anything but a store failure, and the answers
\* are: create Location (Sydney, NSW) returns location_id 1; create
\* Observation for location 1 on 2023-01-01 returns observation_id 1; create
\* Prediction for observation 1 with will_it_rain true returns prediction_id 1
\* and location_id 1; delete Location 1 succeeds; the read of Observation 1
\* that follows still returns location_id 1.
C14_Scenario ==
    LET r == req[1] IN
    r.pc = "done" =>
      /\ r.status = 200 \/ r.err = "PyMongoError"
      /\ (r.status = 200 /\ r.op = "create_mongo_location") =>
            r.data = {[location_id |-> N(1), name |-> "Sydney", state |-> "NSW"]}
      /\ (r.status = 200 /\ r.op = "create_mongo_observation") =>
            \A d \in r.data :
                /\ d.observation_id = N(1) /\ d.location_id = N(1)
                /\ DateOf(d.date) = DateOf(Midnight(1))
      /\ (r.status = 200 /\ r.op = "create_mongo_prediction") =>
            \A d \in r.data :
                /\ d.prediction_id = N(1) /\ d.location_id = N(1)
                /\ d.observation_id = N(1) /\ d.will_it_rain
      /\ (r.status = 200 /\ r.op = "delete_mongo_location") => locations = {}
      /\ (r.status = 200 /\ r.op = "read_mongo_observation") =>
            /\ r.data # {} /\ locations = {}
            /\ \A d \in r.data : d.observation_id = N(1) /\ d.location_id = N(1)
      /\ r.status = 200 => (r.data # {} \/ r.op = "delete_mongo_location")

\* The last request of the scenario has been answered: Location 1 is deleted,
\* Prediction 1 is stored with location_id 1, and the read of Observation 1
\* returned location_id 1.
C14_Witness ==
    /\ req[1].op = "read_mongo_observation" /\ req[1].status = 200
    /\ locations = {} /\ counters["locations"] = N(1)
    /\ \E d \in rain_predictions : d.prediction_id = N(1) /\ d.location_id = N(1)
    /\ \E d \in req[1].data : d.observation_id = N(1) /\ d.location_id = N(1)

\* What a successful create stores for the request it serves: the fields the
\* client submitted (the Observation's date as the timestamp of its
\* midnight) and the allocated id.
CreateStoresSubmitted(p) ==
    /\ (req[p].pc = "cml_insert" /\ req'[p].status = 200) =>
          \E e \in locations' \ locations :
              /\ e.name = req[p].body.name /\ e.state = req[p].body.state
              /\ e.location_id \in req[p].alloc
    /\ (req[p].pc = "cmo_insert" /\ req'[p].pc = "cmo_find") =>
          \E e \in weather_observations' \ weather_observations :
              /\ e.location_id = req[p].body.location_id
              /\ e.date = Midnight(req[p].body.date)
              /\ e.observation_id \in req[p].alloc
    /\ (req[p].pc = "cmp_insert" /\ req'[p].pc = "cmp_find") =>
          \E e \in rain_predictions' \ rain_predictions :
              /\ e.observation_id = req[p].body.observation_id
              /\ e.will_it_rain = req[p].body.will_it_rain
              /\ e.prediction_id \in req[p].alloc

\* What a successful read by id returns: the fields of the stored document
\* with that id, the Observation's date as a timestamp or as its date.
ReadReturnsStored(p) ==
    (req[p].pc = "idle" /\ req'[p].status = 200) =>
      /\ req'[p].op = "read_mongo_location" =>
            /\ req'[p].data # {}
            /\ \A d \in req'[p].data : \E e \in locations :
                  e.location_id = d.location_id /\ e.name = d.name /\ e.state = d.state
      /\ req'[p].op = "read_mongo_observation" =>
            /\ req'[p].data # {}
            /\ \A d \in req'[p].data : \E e \in weather_observations :
                  /\ e.observation_id = d.observation_id
                  /\ e.location_id = d.location_id
                  /\ DateOf(e.date) = DateOf(d.date)
      /\ req'[p].op = "read_mongo_prediction" =>
            /\ req'[p].data # {}
            /\ \A d \in req'[p].data : \E e \in rain_predictions :
                  /\ e.prediction_id = d.prediction_id
                  /\ e.observation_id = d.observation_id
                  /\ e.will_it_rain = d.will_it_rain
                  /\ e.predicted_at = d.predicted_at

\* C15 as stated: a create stores, and a read by the returned id gives back,
\* every field the client submitted with the value it submitted, the
\* predicted_at of a Prediction included, together with the allocated id.
C15_RoundTripEveryField ==
    [][\A p \in Procs :
          /\ CreateStoresSubmitted(p)
          /\ ReadReturnsStored(p)
          /\ (req[p].pc = "cmp_insert" /\ req'[p].pc = "cmp_find") =>
                \E e \in rain_predictions' \ rain_predictions :
                    e.predicted_at = req[p].body.predicted_at]_vars

\* C15, amended: for Location, Observation and Prediction, a create stores,
\* and a read by the returned id (with no update or delete of that id in
\* between) gives back, the submitted value of every client-supplied field
\* except a Prediction's predicted_at, together with the allocated id; the
\* Observation's date is compared as the midnight timestamp of the submitted
\* date; predicted_at is the server's time of the create, whatever was sent.
C15_RoundTripButPredictedAt ==
    [][\A p \in Procs :
          /\ CreateStoresSubmitted(p)
          /\ ReadReturnsStored(p)
          /\ (req[p].pc = "cmp_insert" /\ req'[p].pc = "cmp_find") =>
                \E e \in rain_predictions' \ rain_predictions :
                    e.predicted_at = req[p].now]_vars

\* Prediction 1, created with will_it_rain true for Observation 1 and a
\* predicted_at of the client's, was read back by its id with the server's
\* time; Location 1 and Observation 1 are stored as created.
C15_Witness ==
    \E p \in Procs :
        /\ req[p].op = "read_mongo_prediction" /\ req[p].status = 200
        /\ \E d \in req[p].data :
              /\ d.prediction_id = N(1) /\ d.observation_id = N(1) /\ d.will_it_rain
              /\ d.predicted_at \notin ClientTimes
        /\ \E e \in locations : e.location_id = N(1) /\ e.name \in Names
        /\ \E e \in weather_observations :
              e.observation_id = N(1) /\ e.date = Midnight(1)

\* C21: every document the migration writes into locations,
\* weather_observations and rain_predictions satisfies that collection's
\* schema contract, and so carries the integer identity field (location_id,
\* observation_id, prediction_id) the /mongo endpoints look documents up by.
C21_MigratedDocumentsSatisfyContract ==
    [][migration.at = "insert" =>
          /\ \A d \in locations' \ locations :
                SatisfiesContract("locations", d) /\ Has(d, "location_id")
          /\ \A d \in weather_observations' \ weather_observations :
                SatisfiesContract("weather_observations", d) /\ Has(d, "observation_id")
          /\ \A d \in rain_predictions' \ rain_predictions :
                SatisfiesContract("rain_predictions", d) /\ Has(d, "prediction_id")]_vars


\* The documents a collection holds, without the ObjectIds the store assigned.
Contents(t) == {StripId(d) : d \in Collection(t)}

\* The documents a run of the migration builds from the rows of a table.
MigratedRows(t) == {MigratedDoc(t, row.id) : row \in pg.rows[t]}

\* The try block of migrate_all has been left without an exception.
CompletedWithoutError ==
    migration.at = "completed" \/ (migration.at = "exit" /\ ~migration.error)

\* C22: when a run of migrate_all has completed without error (no request is
\* served meanwhile), each of the three collections holds exactly one
\* document per row of its relational table and nothing else: the documents
\* it held before are gone, the counts the verification script compares are
\* equal, and a second run leaves the same documents as the first (up to
\* the ObjectIds the store assigns).
C22_CompletedMigrationMirrorsTables ==
    CompletedWithoutError =>
        \A t \in PgTables :
            /\ Contents(t) = MigratedRows(t)
            /\ mongo_count(t) = pg_count(t)

\* A second run has completed without error after a first one did, on a
\* table that holds rows.
C22_Witness ==
    /\ CompletedWithoutError
    /\ migration.runs = 2
    /\ migration.ok = 2
    /\ \E t \in PgTables : pg_count(t) = MaxSeq

\* C27: migrate_all runs its steps in the order locations, observations,
\* predictions, each step changing only its own collection; after the first
\* step that raises no further step runs and no collection changes, so the
\* collections of the later steps are left as they were; the error does not
\* leave migrate_all (the run goes on to its exit), and the client passed in
\* is closed at the exit whether or not a step failed.
C27_MigrationStopsAtFirstFailure ==
    [][/\ MigrationOrder = <<"locations", "weather_observations", "rain_predictions">>
       /\ migration'.runs = migration.runs =>
             /\ migration'.step \in {migration.step, migration.step + 1}
             /\ \A t \in CollectionNames :
                   Collection(t)' # Collection(t) => t = MigrationOrder[migration.step]
       /\ migration'.runs # migration.runs => migration'.step = 1
       /\ migration.error /\ migration.at # "exit" =>
             /\ migration.at = "except"
             /\ migration'.at = "exit"
             /\ migration'.step = migration.step
             /\ UNCHANGED <<locations, weather_observations, rain_predictions>>
       /\ migration'.at = "exit" => migration'.client = "closed"
       /\ migration.at \in {"except", "completed"} => migration'.at = "exit"]_vars

\* The first step of a run raised: the run has ended with the client closed,
\* and the collections of the later steps still hold what they held before,
\* although their tables hold rows.
C27_Witness ==
    /\ migration.at = "exit"
    /\ migration.error
    /\ migration.runs = 1
    /\ migration.step = 1
    /\ migration.client = "closed"
    /\ \A t \in {"weather_observations", "rain_predictions"} :
          /\ pg_count(t) = MaxSeq
          /\ Contents(t) \cap MigratedRows(t) = {}
          /\ mongo_count(t) = 1

\* The first k collections of the setup order.
SetupPrefix(k) == {SetupOrder[i] : i \in 1..k}

\* The contracts a run applies when its call number f was the one that raised
\* (all of them when f is 0).
AppliedBefore(f) == SetupPrefix(IF f = 0 THEN Len(SetupOrder) ELSE f - 1)

\* C26: setup_mongodb_validation applies the contracts in the fixed order
\* weather_observations, locations, rain_predictions; the contracts one run
\* applies are always a prefix of that order, ending just before the first
\* call that fails (a missing collection or a store failure), and no contract
\* after a failed one is applied.  Checked for every set of existing
\* collections and every failing call, and on the validators the running
\* server has when none was attached before.
C26_SetupAppliesPrefix ==
    /\ SetupOrder = <<"weather_observations", "locations", "rain_predictions">>
    /\ \A existing \in SUBSET CollectionNames, failAt \in 0..Len(SetupOrder) :
          LET f == SetupFailureFrom(1, existing, failAt)
              fails(i) == SetupOrder[i] \notin existing \/ i = failAt
          IN  /\ SetupFrom(1, existing, failAt) = AppliedBefore(f)
              /\ f # 0 => fails(f) /\ \A i \in 1..(f - 1) : ~fails(i)
              /\ f = 0 => \A i \in 1..Len(SetupOrder) : ~fails(i)
              /\ setup_mongodb_validation(existing, {}, failAt) = AppliedBefore(f)
    /\ startup.attached = {} => validators = AppliedBefore(startup.failure)

\* The third collMod raised at startup and nothing was attached before: the
\* first two contracts are in force, the third is not, and the server has
\* stored a Location.
C26_Witness ==
    /\ startup.failure = 3 /\ startup.attached = {}
    /\ validators = {"weather_observations", "locations"}
    /\ locations # {}

\* C23: in every state the /mongo create, update and delete requests reach
\* from empty collections and counters, in any interleaving, no two documents
\* of one collection carry the same identity value (location_id,
\* observation_id, prediction_id).
C23_IdentityUnique ==
    /\ \A d, e \in locations : d.location_id = e.location_id => d = e
    /\ \A d, e \in weather_observations : d.observation_id = e.observation_id => d = e
    /\ \A d, e \in rain_predictions : d.prediction_id = e.prediction_id => d = e

\* Two Predictions were created by requests served at the same time: one has
\* been answered while the other has written its document and not returned.
C23_Witness ==
    /\ Cardinality(rain_predictions) = 2
    /\ \E p, q \in Procs :
          /\ req[p].op = "create_mongo_prediction" /\ req[p].status = 200
          /\ req[q].op = "create_mongo_prediction" /\ req[q].pc = "cmp_find"

\* The delete handlers, the collection each deletes from, and the identity
\* field of a collection.
DeleteOps == {"delete_mongo_location", "delete_mongo_observation", "delete_mongo_prediction"}

DeleteCollection(op) ==
    CASE op = "delete_mongo_location" -> "locations"
      [] op = "delete_mongo_observation" -> "weather_observations"
      [] OTHER -> "rain_predictions"

IdentityField(c) ==
    CASE c = "locations" -> "location_id"
      [] c = "weather_observations" -> "observation_id"
      [] OTHER -> "prediction_id"

\* The identity values present in a collection.
Identities(c) == {d[IdentityField(c)] : d \in {e \in Collection(c) : IdentityField(c) \in DOMAIN e}}

\* A step that changes no collection and no counter.
NothingWritten == UNCHANGED <<counters, locations, weather_observations, rain_predictions>>

\* C25: of two /mongo delete requests for the same existing id served at the
\* same time, exactly one succeeds and the other gets 404: a delete_one that
\* matches removes the one document with that id and is answered with
\* success, after which no document has the id, and a delete_one that matches
\* nothing is answered 404.  A delete request for an id no document has is
\* answered 404 and changes no collection and no counter.  (A store call
\* that raises ends the request with 500 and writes nothing.)
C25_OneDeleteSucceeds ==
    [][\A p \in Procs :
          /\ (req[p].pc = "idle" /\ req'[p].op \in DeleteOps) =>
                LET c == DeleteCollection(req'[p].op) IN
                /\ NothingWritten
                /\ req'[p].pc # "done" => req'[p].id \in Identities(c)
                /\ req'[p].pc = "done" =>
                      \/ req'[p].status = 404 /\ req'[p].detail[2] \notin Identities(c)
                      \/ req'[p].status = 500 /\ req'[p].err = "PyMongoError"
          /\ (req[p].op \in DeleteOps /\ req[p].pc \notin {"idle", "done"}
                /\ req'[p] # req[p]) =>
                LET c == DeleteCollection(req[p].op)
                    m == Matching(Collection(c), IdentityField(c), req[p].id) IN
                /\ req'[p].pc = "done"
                /\ UNCHANGED counters
                /\ \A t \in CollectionNames \ {c} : Collection(t)' = Collection(t)
                /\ m = {} =>
                      /\ NothingWritten
                      /\ \/ req'[p].status = 404 /\ req'[p].detail[2] = req[p].id
                         \/ req'[p].status = 500 /\ req'[p].err = "PyMongoError"
                /\ m # {} =>
                      \/ /\ req'[p].status = 200
                         /\ Cardinality(m) = 1
                         /\ Collection(c)' = Collection(c) \ m
                         /\ req[p].id \notin Identities(c)'
                      \/ /\ req'[p].status = 500 /\ req'[p].err = "PyMongoError"
                         /\ NothingWritten]_vars

\* Two deletes of Location 1 were served together: one has been answered
\* with success and the other, which had found the Location, is about to
\* send its delete_one.
C25_Witness ==
    \E p, q \in Procs :
        /\ req[p].op = "delete_mongo_location" /\ req[p].pc = "done" /\ req[p].status = 200
        /\ req[q].op = "delete_mongo_location" /\ req[q].pc = "dml_delete"
        /\ req[q].id = N(1)
        /\ N(1) \notin Identities("locations")

\* The update and create handlers, and the handler a step of slot p belongs to.
UpdateOps == {"update_mongo_location", "update_mongo_observation", "update_mongo_prediction"}

CreateOps == {"create_mongo_location", "create_mongo_observation", "create_mongo_prediction"}

StepOp(p) == IF req[p].pc = "idle" THEN req'[p].op ELSE req[p].op

\* The positions of an update handler up to its update_one call (the
\* read-back of the updated document comes after the write).
UpToWritePcs == {"umo_update", "ump_find_obs", "ump_verify", "ump_now", "ump_update"}

\* The documents of a collection by ObjectId, each with its identity value.
IdentityOf(c) ==
    {<<d._id, IF IdentityField(c) \in DOMAIN d THEN d[IdentityField(c)] ELSE NULL>>
        : d \in Collection(c)}

\* C24: no step of a /mongo update request inserts a document or changes a
\* document's identity field, and the identity values present in a
\* collection change only in steps of create and delete requests; an update
\* request whose target id has no document, also when a delete served at
\* the same time removed it after the update's lookup and before its write,
\* is answered 404 (500 when a store call raised) and writes nothing.
C24_UpdateKeepsIdentities ==
    [][\A p \in Procs :
          /\ (req'[p] # req[p] /\ StepOp(p) \in UpdateOps) =>
                \A c \in CollectionNames : IdentityOf(c)' = IdentityOf(c)
          /\ (req'[p] # req[p] /\ StepOp(p) \notin CreateOps \cup DeleteOps) =>
                \A c \in CollectionNames : Identities(c)' = Identities(c)
          /\ (req[p].pc = "idle" /\ req'[p].pc # "done"
                /\ req'[p].op \in {"update_mongo_location", "update_mongo_prediction"}) =>
                req'[p].id \in Identities(WrittenCollection(req'[p].op))
          /\ (req[p].pc = "idle" /\ req'[p].op \in UpdateOps /\ req'[p].status = 404) =>
                /\ NothingWritten
                /\ req'[p].detail[1] \in {"Location", "Observation", "Prediction"}
          /\ (req[p].op \in UpdateOps /\ req[p].pc \in UpToWritePcs /\ req'[p] # req[p]
                /\ req[p].id \notin Identities(WrittenCollection(req[p].op))) =>
                /\ NothingWritten
                /\ req[p].pc \in {"umo_update", "ump_update"} => req'[p].pc = "done"
                /\ req'[p].pc = "done" =>
                      \/ req'[p].status = 404
                      \/ req'[p].status = 500 /\ req'[p].err = "PyMongoError"]_vars
====
